---------------------------- MODULE Spec2Model ----------------------------
(***************************************************************************)
(* Model of the vikunja-mcp task tools: the vikunja_tasks `list`           *)
(* subcommand with its Task Filtering Orchestrator, and the saved-filter   *)
(* storage used by vikunja_filters and vikunja_templates.                  *)
(*                                                                         *)
(* A filter string is modelled as the sequence of its lexical tokens, each *)
(* token a TLA+ string: "priority >= 3 && done = false" is                 *)
(* <<"priority", ">=", "3", "&&", "done", "=", "false">>.  The empty       *)
(* string is the empty sequence.  An optional value (a `?:` field of the   *)
(* TypeScript types) is a sequence of length 0 (absent) or 1 (present).    *)
(***************************************************************************)
EXTENDS Integers, Sequences, FiniteSets, TLC

VARIABLES
    storage,   \* the session's saved filters: id -> SavedFilter
    nextId,    \* number of ids the storage has handed out
    clock,     \* Date.now() in milliseconds
    reply,     \* outcome of the last vikunja_filters / vikunja_templates call
    pc,        \* position of the vikunja_tasks list request in flight
    args,      \* its arguments
    ast,       \* the parsed expression of its effective filter (optional)
    meta,      \* the orchestrator's metadata flags so far
    run,       \* what the request has read and called so far
    response,  \* the response returned to the caller (optional)
    error,     \* the error thrown to the caller (optional)
    creating   \* the vikunja_filters create requests between their awaits

vars ==
    <<storage, nextId, clock, reply, pc, args, ast, meta, run, response, error, creating>>
\* What a step of a list request leaves alone, and what a call of the filters
\* or templates tool handled in one step leaves alone.
storeVars == <<storage, nextId, clock, reply, creating>>
listVars == <<pc, args, ast, meta, run, response, error, creating>>

None == <<>>
Some(x) == <<x>>
IsSome(o) == Len(o) = 1
Get(o) == o[1]

Min(a, b) == IF a <= b THEN a ELSE b

\* The create requests that can be in flight together, none of them begun.
Racers == {1, 2}
NotCreating == [stage |-> "idle", request |-> None, existing |-> FALSE, status |-> ""]
NoneCreating == [r \in Racers |-> NotCreating]

----------------------------------------------------------------------------
(* Bounds of the model *)

\* largest numeric literal of the filter language that the model draws
MaxNum == 5
\* largest perPage a request asks for
MaxPerPage == 2
\* largest page a request asks for
MaxPage == 2
\* saved filters the storage creates before create is no longer drawn
MaxFilters == 2
\* last millisecond the clock reaches
MaxClock == 1

----------------------------------------------------------------------------
(* The filter language: fields, operators, tokens *)

FilterFields ==
    {"done", "priority", "percentDone", "dueDate", "assignees", "labels",
     "created", "updated", "title", "description"}

FilterOperators == {"=", "!=", ">", ">=", "<", "<=", "like", "in", "not in"}

Combinators == {"&&", "||"}

Punctuation == {"(", ")", ","}

FieldKind(f) ==
    CASE f = "done" -> "boolean"
      [] f \in {"priority", "percentDone"} -> "number"
      [] f \in {"dueDate", "created", "updated"} -> "date"
      [] f \in {"assignees", "labels"} -> "array"
      [] OTHER -> "string"

NumberLiterals == {ToString(n) : n \in 0..MaxNum}
NumOf(tok) == CHOOSE n \in 0..MaxNum : ToString(n) = tok

\* A literal's kind is recognised by its pattern, not by the field's type.
NumV(n) == [kind |-> "number", n |-> n, b |-> FALSE, s |-> "", arr |-> {}]
BoolV(b) == [kind |-> "boolean", n |-> 0, b |-> b, s |-> "", arr |-> {}]
StrV(s) == [kind |-> "string", n |-> 0, b |-> FALSE, s |-> s, arr |-> {}]
ArrV(a) == [kind |-> "array", n |-> 0, b |-> FALSE, s |-> "", arr |-> a]

IsScalarToken(tok) == tok \notin FilterOperators \cup Combinators \cup Punctuation

LiteralValue(tok) ==
    IF tok \in NumberLiterals THEN NumV(NumOf(tok))
    ELSE IF tok \in {"true", "false"} THEN BoolV(tok = "true")
    ELSE StrV(tok)

Condition(f, op, v) ==
    [type |-> "condition", field |-> f, operator |-> op, value |-> v]
BinaryNode(c, l, r) ==
    [type |-> "binary", combinator |-> c, left |-> l, right |-> r]


----------------------------------------------------------------------------
(* Tokenizer/Parser: parse(input) -> {expression} | {error}                 *)
(* expression := condition ( combinator condition )*                        *)
(* condition  := FIELD OPERATOR value                                       *)
(* value      := literal | "(" value ("," value)* ")"                       *)

ParseOk(e, next) == [ok |-> TRUE, expression |-> Some(e), error |-> "", next |-> next]
ParseFail(kind) == [ok |-> FALSE, expression |-> None, error |-> kind, next |-> 0]

\* The elements of an array value, from the token after "(" or after ",".
RECURSIVE ParseArray(_, _, _)
ParseArray(toks, i, acc) ==
    IF i > Len(toks) THEN ParseFail("UnterminatedLiteral")
    ELSE IF toks[i] \notin NumberLiterals THEN ParseFail("UnexpectedToken")
    ELSE IF i + 1 > Len(toks) THEN ParseFail("UnterminatedLiteral")
    ELSE IF toks[i + 1] = ")" THEN ParseOk(ArrV(acc \cup {NumOf(toks[i])}), i + 2)
    ELSE IF toks[i + 1] = "," THEN ParseArray(toks, i + 2, acc \cup {NumOf(toks[i])})
    ELSE ParseFail("UnexpectedToken")

ParseValue(toks, i) ==
    IF i > Len(toks) THEN ParseFail("UnexpectedToken")
    ELSE IF toks[i] = "(" THEN ParseArray(toks, i + 1, {})
    ELSE IF IsScalarToken(toks[i]) THEN ParseOk(LiteralValue(toks[i]), i + 1)
    ELSE ParseFail("UnexpectedToken")

ParseCondition(toks, i) ==
    IF i > Len(toks) THEN ParseFail("UnexpectedToken")
    ELSE IF toks[i] \notin FilterFields THEN ParseFail("UnknownField")
    ELSE IF i + 1 > Len(toks) THEN ParseFail("UnexpectedToken")
    ELSE IF toks[i + 1] \notin FilterOperators THEN ParseFail("UnknownOperator")
    ELSE LET v == ParseValue(toks, i + 2) IN
         IF ~v.ok THEN v
         ELSE ParseOk(Condition(toks[i], toks[i + 1], Get(v.expression)), v.next)

\* The rest of a chain: left-associative, whatever the combinators are.
RECURSIVE ParseChain(_, _, _)
ParseChain(toks, i, left) ==
    IF i > Len(toks) THEN ParseOk(left, i)
    ELSE IF toks[i] \notin Combinators THEN ParseFail("UnexpectedToken")
    ELSE LET c == ParseCondition(toks, i + 1) IN
         IF ~c.ok THEN c
         ELSE ParseChain(toks, c.next, BinaryNode(toks[i], left, Get(c.expression)))

parseFilterString(toks) ==
    IF Len(toks) = 0 THEN ParseFail("EmptyExpression")
    ELSE LET c == ParseCondition(toks, 1) IN
         IF ~c.ok THEN c ELSE ParseChain(toks, c.next, Get(c.expression))

----------------------------------------------------------------------------
(* Evaluator: evaluate(expression, task) -> boolean                         *)

Compare(op, a, b) ==
    CASE op = "=" -> a = b
      [] op = "!=" -> a # b
      [] op = ">" -> a > b
      [] op = ">=" -> a >= b
      [] op = "<" -> a < b
      [] op = "<=" -> a <= b
      [] OTHER -> FALSE

\* A leaf on a task: false when the task lacks the field, and false on any
\* mismatch between the field's kind, the operator and the value.
EvaluatePresent(c, task) ==
    LET kind == FieldKind(c.field)
        v == c.value
        attr == task[c.field]
    IN CASE kind = "number" ->
              /\ v.kind = "number"
              /\ Compare(c.operator, attr, v.n)
         [] kind = "boolean" ->
              /\ v.kind = "boolean"
              /\ c.operator \in {"=", "!="}
              /\ Compare(c.operator, attr, v.b)
         [] kind = "array" ->
              /\ v.kind = "array"
              /\ \/ c.operator = "in" /\ attr \cap v.arr # {}
                 \/ c.operator = "not in" /\ attr \cap v.arr = {}
         [] kind = "string" ->
              /\ v.kind = "string"
              /\ \/ c.operator \in {"=", "!="} /\ Compare(c.operator, attr, v.s)
                 \/ c.operator = "like" /\ attr = v.s
         [] OTHER -> FALSE

EvaluateConditionAbsentIsUnequal(c, task) ==
    IF c.field \notin DOMAIN task THEN c.operator \in {"!=", "not in"}
    ELSE EvaluatePresent(c, task)

EvaluateCondition(c, task) ==
    IF c.field \notin DOMAIN task THEN FALSE
    ELSE EvaluatePresent(c, task)

RECURSIVE evaluate(_, _)
evaluate(e, task) ==
    IF e.type = "condition" THEN EvaluateCondition(e, task)
    ELSE IF e.combinator = "&&"
         THEN IF evaluate(e.left, task) THEN evaluate(e.right, task) ELSE FALSE
         ELSE IF evaluate(e.left, task) THEN TRUE ELSE evaluate(e.right, task)

applyClientSideFilter(tasks, e) == SelectSeq(tasks, LAMBDA t : evaluate(e, t))

----------------------------------------------------------------------------
(* The values the model draws: filter strings, tasks, remote answers *)

FilterScenarioA == <<"priority", ">=", "3", "&&", "done", "=", "false">>
FilterScenarioB == <<"labels", "in", "(", "1", ",", "2", ")">>
FilterScenarioC == <<"priority", ">>>", "3">>
FilterPriority == <<"priority", ">=", "3">>
FilterNotPriority == <<"priority", "!=", "3">>
FilterDone == <<"done", "=", "true">>
FilterEmpty == <<>>

FilterStrings ==
    {FilterScenarioA, FilterScenarioB, FilterScenarioC, FilterPriority,
     FilterNotPriority, FilterDone, FilterEmpty}

Task1 == [id |-> 1, priority |-> 4, done |-> FALSE]
Task2 == [id |-> 2, priority |-> 2, done |-> FALSE]
Task3 == [id |-> 3, priority |-> 5, done |-> TRUE]
\* a task record without a priority attribute
Task4 == [id |-> 4, done |-> FALSE, labels |-> {2, 9}]

AllTasks == <<Task1, Task2, Task3, Task4>>

\* What a listing call of the remote API can answer: any sub-list of the tasks.
RemoteAnswers ==
    {SelectSeq(AllTasks, LAMBDA t : t.id \in S) : S \in SUBSET {1, 2, 3, 4}}

FilterIds == {"f1", "f2"}
\* an id no saved filter has
MissingId == "f9"

----------------------------------------------------------------------------
(* Session storage of saved filters: get/list/create/update/delete/         *)
(* findByName over a collection kept in insertion order                     *)

SavedFilter(id, name, filter, isGlobal, description, projectId) ==
    [id |-> id, name |-> name, filter |-> filter, isGlobal |-> isGlobal,
     description |-> description, projectId |-> projectId]

Indices(st, P(_)) == {i \in 1..Len(st) : P(st[i])}
First(st, P(_)) ==
    IF Indices(st, P) = {} THEN None
    ELSE Some(st[CHOOSE i \in Indices(st, P) : \A j \in Indices(st, P) : i <= j])

storageGet(st, id) == First(st, LAMBDA f : f.id = id)
storageFindByName(st, name) == First(st, LAMBDA f : f.name = name)
storageDelete(st, id) == SelectSeq(st, LAMBDA f : f.id # id)

\* Saved filters the session can hold when a listing request arrives.
StoredA == SavedFilter("f1", "a", FilterScenarioA, FALSE, None, None)
StoredP == SavedFilter("f1", "a", FilterPriority, FALSE, None, None)
StoredC == SavedFilter("f2", "b", FilterScenarioC, TRUE, None, None)
StoredE == SavedFilter("f2", "", FilterEmpty, FALSE, None, None)

NoReply == [tool |-> "", action |-> "", status |-> "none", message |-> ""]

InitialStorages ==
    {<<>>, <<StoredP>>, <<StoredA, StoredC>>, <<StoredP, StoredE>>}

----------------------------------------------------------------------------
(* vikunja_tasks list: the request, its errors and its response *)

MCPError(code, detail) == [mcp |-> TRUE, code |-> code, detail |-> detail]
PlainError(detail) == [mcp |-> FALSE, code |-> "", detail |-> detail]

ListingArgs ==
    [filter : {None} \cup {Some(f) : f \in FilterStrings},
     filterId : {None} \cup {Some(i) : i \in FilterIds \cup {MissingId}},
     page : {None} \cup {Some(n) : n \in 1..MaxPage},
     perPage : {None} \cup {Some(n) : n \in 1..MaxPerPage}]

NoArgs == [filter |-> None, filterId |-> None, page |-> None, perPage |-> None]

NoMeta == [serverSideFilteringUsed |-> FALSE, serverSideFilteringAttempted |-> FALSE]

NoRun ==
    [saved |-> None, parsed |-> None, forwarded |-> None, answer |-> None,
     fetched |-> None,
     storageGet |-> 0, parse |-> 0, evaluate |-> 0,
     remoteFiltered |-> 0, remotePlain |-> 0, fallbackFetch |-> 0]

\* Pagination applied locally: the page `page` (default 1) of `perPage` items,
\* everything when no perPage is asked for.
Paginate(tasks, page, perPage) ==
    IF ~IsSome(perPage) THEN tasks
    ELSE LET p == IF IsSome(page) THEN Get(page) ELSE 1
             n == Get(perPage)
         IN SubSeq(tasks, (p - 1) * n + 1, Min(p * n, Len(tasks)))

\* The filter string the orchestrator works with: the inline string when one
\* is given, else the saved filter's string, else none.
EffectiveFilterSavedFirst(a, saved) ==
    IF IsSome(saved) THEN Some(Get(saved).filter)
    ELSE a.filter

EffectiveFilter(a, saved) ==
    IF IsSome(a.filter) THEN a.filter
    ELSE IF IsSome(saved) THEN Some(Get(saved).filter)
    ELSE None

\* storage.get reads: the saved filters are what they were.
LookupConsumes(st, id) == storageDelete(st, id)

StorageAfterLookup(st, id) == st

\* Where the orchestrator goes when the remote filtered call failed.
RetryServer == "AttemptServer"

AfterServerFailure == "ClientFallback"

\* What the orchestrator returns of the remote's answer to a filtered call.
ServerResultRefiltered(answer, e) == applyClientSideFilter(answer, e)

ServerResult(answer, e) == answer

FilteringResult(tasks, m) ==
    [tasks |-> tasks,
     metadata |-> [serverSideFilteringUsed |-> m.serverSideFilteringUsed,
                   serverSideFilteringAttempted |-> m.serverSideFilteringAttempted,
                   count |-> Len(tasks)]]

\* listTasks, after the orchestrator returned: the message and the response.
FilteringMessage(a, result) ==
    IF IsSome(a.filter) /\ Get(a.filter) # <<>>
    THEN IF result.metadata.serverSideFilteringUsed
         THEN " (filtered server-side)"
         ELSE IF result.metadata.serverSideFilteringAttempted
              THEN " (filtered client-side - server-side fallback)"
              ELSE " (filtered client-side)"
    ELSE ""

ListTasksResponseNoMetadata(a, result) ==
    [tasks |-> result.tasks,
     message |-> FilteringMessage(a, result),
     metadata |-> [count |-> Len(result.tasks),
                   serverSideFilteringUsed |-> FALSE,
                   serverSideFilteringAttempted |-> FALSE]]

ListTasksResponseNoTasks(a, result) ==
    [tasks |-> <<>>,
     message |-> FilteringMessage(a, result),
     metadata |-> [count |-> 0,
                   serverSideFilteringUsed |-> result.metadata.serverSideFilteringUsed,
                   serverSideFilteringAttempted |->
                       result.metadata.serverSideFilteringAttempted]]

ListTasksResponsePaged(a, result) ==
    [tasks |-> Paginate(result.tasks, a.page, a.perPage),
     message |-> FilteringMessage(a, result),
     metadata |-> [count |-> result.metadata.count,
                   serverSideFilteringUsed |-> result.metadata.serverSideFilteringUsed,
                   serverSideFilteringAttempted |->
                       result.metadata.serverSideFilteringAttempted]]

\* The orchestrator's metadata is spread last, so its fields are the
\* response's.
ListTasksResponse(a, result) ==
    [tasks |-> result.tasks,
     message |-> FilteringMessage(a, result),
     metadata |-> [count |-> result.metadata.count,
                   serverSideFilteringUsed |-> result.metadata.serverSideFilteringUsed,
                   serverSideFilteringAttempted |->
                       result.metadata.serverSideFilteringAttempted]]

handleFetchError(e) == MCPError("API_ERROR", e.detail)

\* listTasks, when the orchestrator threw: an MCPError is rethrown as it is,
\* anything else is wrapped by handleFetchError.
ListTasksCatchWrapAll(e) == handleFetchError(e)

ListTasksCatchRethrowAll(e) == e

ListTasksCatch(e) == IF e.mcp THEN e ELSE handleFetchError(e)

\* The handler's catch: an MCPError is rethrown, anything else becomes an
\* INTERNAL_ERROR.
TasksToolCatch(e) == IF e.mcp THEN e ELSE MCPError("INTERNAL_ERROR", e.detail)

----------------------------------------------------------------------------
(* The listing request as a state machine                                   *)
(* Start -> ResolveFilter -> {NoFilter -> Done} | {ParseError -> Failed}    *)
(*   | {Parsed -> AttemptServer -> {Success -> Done}                        *)
(*                               | {Fail -> ClientFallback -> Done}}        *)

Running == {"Start", "ResolveFilter", "NoFilter", "AttemptServer", "ClientFallback"}
Terminal == {"Done", "Failed"}

\* The request ends with listTasks' response.
Succeed(tasks, m) ==
    /\ pc' = "Done"
    /\ meta' = m
    /\ response' = Some(ListTasksResponse(args, FilteringResult(tasks, m)))
    /\ error' = None

ThrowSwallowed(e) ==
    /\ pc' = "Done"
    /\ response' = Some(ListTasksResponse(args, FilteringResult(<<>>, NoMeta)))
    /\ error' = None

\* The orchestrator threw e: listTasks' catch decides what the caller gets.
Throw(e) ==
    /\ pc' = "Failed"
    /\ response' = None
    /\ error' = Some(ListTasksCatch(e))

\* What a handler has done before it dispatches on the subcommand: the
\* client-factory, client and storage calls made so far, and the error
\* thrown, if any.
Prologue(calls, e) == [calls |-> calls, error |-> e]

\* createAuthRequiredError
createAuthRequiredError == MCPError("AUTH_REQUIRED", "")

TasksPrologueClientFirst(authenticated, hasFactory, clientOk) ==
    LET calls == (IF hasFactory THEN <<"setGlobalClientFactory">> ELSE <<>>)
                 \o <<"getClientFromContext">>
    IN IF ~clientOk THEN Prologue(calls, Some(PlainError("client")))
       ELSE IF ~authenticated THEN Prologue(calls, Some(createAuthRequiredError))
       ELSE Prologue(calls, None)

\* vikunja_tasks: the session is checked, then the client factory is set if
\* one was registered, then the client connection is tested.
TasksPrologue(authenticated, hasFactory, clientOk) ==
    IF ~authenticated THEN Prologue(<<>>, Some(createAuthRequiredError))
    ELSE LET calls == (IF hasFactory THEN <<"setGlobalClientFactory">> ELSE <<>>)
                      \o <<"getClientFromContext">>
         IN Prologue(calls, IF clientOk THEN None ELSE Some(PlainError("client")))

\* vikunja_task_bulk: as vikunja_tasks.
TaskBulkPrologue(authenticated, hasFactory, clientOk) ==
    IF ~authenticated THEN Prologue(<<>>, Some(createAuthRequiredError))
    ELSE LET calls == (IF hasFactory THEN <<"setGlobalClientFactory">> ELSE <<>>)
                      \o <<"getClientFromContext">>
         IN Prologue(calls, IF clientOk THEN None ELSE Some(PlainError("client")))

\* vikunja_templates: the session is checked, then the client and the session
\* storage are obtained.
TemplatesPrologue(authenticated, clientOk) ==
    IF ~authenticated THEN Prologue(<<>>, Some(MCPError("AUTH_REQUIRED", "")))
    ELSE Prologue(<<"getClientFromContext", "getSessionStorage">>,
                  IF clientOk THEN None ELSE Some(PlainError("client")))

\* vikunja_users: the session is checked, then the kind of authentication,
\* then the client is obtained; all three before the handler's try.
UsersPrologue(authenticated, authType, clientOk) ==
    IF ~authenticated THEN Prologue(<<>>, Some(MCPError("AUTH_REQUIRED", "")))
    ELSE IF authType # "jwt" THEN Prologue(<<>>, Some(MCPError("PERMISSION_DENIED", "")))
    ELSE Prologue(<<"getClientFromContext">>,
                  IF clientOk THEN None ELSE Some(PlainError("client")))

\* The catch of the task bulk and templates handlers: an MCPError is
\* rethrown, anything else is wrapped as INTERNAL_ERROR.
TaskBulkCatch(e) == IF e.mcp THEN e ELSE MCPError("INTERNAL_ERROR", e.detail)
TemplatesCatch(e) == IF e.mcp THEN e ELSE MCPError("INTERNAL_ERROR", e.detail)

\* The handler up to the call of listTasks: authentication, the client
\* connection, the session storage.
TasksToolList(a, authenticated, clientOk) ==
    /\ pc = "Idle"
    /\ args' = a
    /\ ast' = None
    /\ meta' = NoMeta
    /\ run' = NoRun
    /\ response' = None
    /\ LET before == TasksPrologue(authenticated, TRUE, clientOk) IN
       IF IsSome(before.error)
       THEN /\ pc' = "Failed"
            /\ error' = Some(TasksToolCatch(Get(before.error)))
       ELSE /\ pc' = "Start"
            /\ error' = None
    /\ UNCHANGED storeVars

\* Step 1: a saved-filter identifier is looked up in storage.
LookupSavedFilter ==
    /\ pc = "Start"
    /\ IF IsSome(args.filterId)
       THEN LET found == storageGet(storage, Get(args.filterId)) IN
            /\ run' = [run EXCEPT !.storageGet = @ + 1, !.saved = found]
            /\ IF IsSome(found)
               THEN /\ pc' = "ResolveFilter"
                    /\ UNCHANGED <<response, error>>
               ELSE Throw(MCPError("NOT_FOUND", Get(args.filterId)))
            /\ storage' = StorageAfterLookup(storage, Get(args.filterId))
       ELSE /\ pc' = "ResolveFilter"
            /\ UNCHANGED <<run, response, error, storage>>
    /\ UNCHANGED <<args, ast, meta, nextId, clock, reply, creating>>

\* Steps 2 to 4: the effective filter string is resolved and parsed.
ResolveFilter ==
    /\ pc = "ResolveFilter"
    /\ LET eff == EffectiveFilter(args, run.saved) IN
       IF ~IsSome(eff)
       THEN /\ pc' = "NoFilter"
            /\ UNCHANGED <<ast, run, response, error>>
       ELSE LET parsed == parseFilterString(Get(eff)) IN
            /\ run' = [run EXCEPT !.parse = @ + 1, !.parsed = eff]
            /\ IF parsed.ok
               THEN /\ pc' = "AttemptServer"
                    /\ ast' = parsed.expression
                    /\ UNCHANGED <<response, error>>
               ELSE /\ Throw(MCPError("VALIDATION_ERROR", parsed.error))
                    /\ UNCHANGED ast
    /\ UNCHANGED <<args, meta>>
    /\ UNCHANGED storeVars

\* Step 3: no filter, the remote listing is returned as it is.
NoFilterListed(answer) ==
    /\ pc = "NoFilter"
    /\ run' = [run EXCEPT !.remotePlain = @ + 1, !.answer = Some(answer)]
    /\ Succeed(answer, NoMeta)
    /\ UNCHANGED <<args, ast>>
    /\ UNCHANGED storeVars

NoFilterFailed(mcp) ==
    /\ pc = "NoFilter"
    /\ run' = [run EXCEPT !.remotePlain = @ + 1]
    /\ Throw([mcp |-> mcp, code |-> IF mcp THEN "API_ERROR" ELSE "", detail |-> "list"])
    /\ UNCHANGED <<args, ast, meta>>
    /\ UNCHANGED storeVars

\* Step 5: the remote accepted the filter string; its answer is returned.
AttemptServerSucceeded(answer) ==
    /\ pc = "AttemptServer"
    /\ run' = [run EXCEPT !.remoteFiltered = @ + 1, !.forwarded = run.parsed,
                          !.answer = Some(answer)]
    /\ Succeed(ServerResult(answer, Get(ast)),
               [serverSideFilteringUsed |-> TRUE,
                serverSideFilteringAttempted |-> TRUE])
    /\ UNCHANGED <<args, ast>>
    /\ UNCHANGED storeVars

\* Step 6, first half: the remote call failed, for whatever reason.
AttemptServerFailed ==
    /\ pc = "AttemptServer"
    /\ run' = [run EXCEPT !.remoteFiltered = @ + 1, !.forwarded = run.parsed]
    /\ meta' = [serverSideFilteringUsed |-> FALSE,
                serverSideFilteringAttempted |-> TRUE]
    /\ pc' = AfterServerFailure
    /\ UNCHANGED <<args, ast, response, error>>
    /\ UNCHANGED storeVars

\* Step 6, second half: the unfiltered collection is fetched, the Evaluator
\* runs on every task of it, and the matches are paginated locally.
ClientFallbackDone(fetched) ==
    /\ pc = "ClientFallback"
    /\ run' = [run EXCEPT !.fallbackFetch = @ + 1, !.fetched = Some(fetched),
                          !.evaluate = @ + Len(fetched)]
    /\ Succeed(Paginate(applyClientSideFilter(fetched, Get(ast)), args.page, args.perPage),
               meta)
    /\ UNCHANGED <<args, ast>>
    /\ UNCHANGED storeVars

\* The fallback's own fetch failed: the one case fatal to the request.
ClientFallbackFailed(mcp) ==
    /\ pc = "ClientFallback"
    /\ run' = [run EXCEPT !.fallbackFetch = @ + 1]
    /\ Throw([mcp |-> mcp, code |-> IF mcp THEN "API_ERROR" ELSE "", detail |-> "fetch"])
    /\ UNCHANGED <<args, ast, meta>>
    /\ UNCHANGED storeVars

\* The caller has its answer; the next request can come.
Return ==
    /\ pc \in Terminal
    /\ pc' = "Idle"
    /\ args' = NoArgs
    /\ ast' = None
    /\ meta' = NoMeta
    /\ run' = NoRun
    /\ response' = None
    /\ error' = None
    /\ UNCHANGED storeVars

Init ==
    /\ storage \in InitialStorages
    /\ nextId = Len(storage)
    /\ clock = 0
    /\ reply = NoReply
    /\ pc = "Idle"
    /\ args = NoArgs
    /\ ast = None
    /\ meta = NoMeta
    /\ run = NoRun
    /\ response = None
    /\ error = None
    /\ creating = NoneCreating

Next ==
    \/ \E a \in ListingArgs, authenticated \in BOOLEAN, clientOk \in BOOLEAN :
          TasksToolList(a, authenticated, clientOk)
    \/ LookupSavedFilter
    \/ ResolveFilter
    \/ \E answer \in RemoteAnswers : NoFilterListed(answer)
    \/ \E mcp \in BOOLEAN : NoFilterFailed(mcp)
    \/ \E answer \in RemoteAnswers : AttemptServerSucceeded(answer)
    \/ AttemptServerFailed
    \/ \E fetched \in RemoteAnswers : ClientFallbackDone(fetched)
    \/ \E mcp \in BOOLEAN : ClientFallbackFailed(mcp)
    \/ Return

Spec == Init /\ [][Next]_vars

\* Each awaited storage and remote call eventually returns or fails: a
\* request in flight is not left waiting forever.
Step ==
    \/ LookupSavedFilter
    \/ ResolveFilter
    \/ \E answer \in RemoteAnswers : NoFilterListed(answer)
    \/ \E mcp \in BOOLEAN : NoFilterFailed(mcp)
    \/ \E answer \in RemoteAnswers : AttemptServerSucceeded(answer)
    \/ AttemptServerFailed
    \/ \E fetched \in RemoteAnswers : ClientFallbackDone(fetched)
    \/ \E mcp \in BOOLEAN : ClientFallbackFailed(mcp)

FairSpec == Spec /\ WF_vars(Step)

----------------------------------------------------------------------------
(* Properties of the listing request *)

\* The remote filtered call of this request was made and failed.
RemoteFailed == run.remoteFiltered >= 1 /\ ~IsSome(run.answer)

ResponseOf == Get(response)

FallbackFlags(m) ==
    /\ m.serverSideFilteringUsed = FALSE
    /\ m.serverSideFilteringAttempted = TRUE

C2_AtMostOneRemoteAttempt ==
    /\ run.remoteFiltered <= 1
    /\ pc = "AttemptServer" => run.remoteFiltered = 0
    /\ RemoteFailed => pc \in {"ClientFallback", "Done", "Failed"}
    /\ pc = "ClientFallback" => RemoteFailed

C2_Witness ==
    /\ pc = "Done"
    /\ RemoteFailed
    /\ run.remoteFiltered = 1
    /\ run.fallbackFetch = 1

\* The effective filter string of this request was parsed and the parse failed.
ParseFailed == run.parse >= 1 /\ ~parseFilterString(Get(run.parsed)).ok

NoListing ==
    /\ run.remoteFiltered = 0
    /\ run.remotePlain = 0
    /\ run.fallbackFetch = 0
    /\ run.evaluate = 0
    /\ ~IsSome(response)

\* C3: when the effective filter string fails to parse, the request is
\* Failed with the parse error as the caller's error, and neither the remote
\* filtered listing nor the local fetch has been performed.
C3_ParseErrorSurfaced ==
    ParseFailed =>
        /\ pc = "Failed"
        /\ IsSome(error)
        /\ Get(error).mcp
        /\ Get(error).code = "VALIDATION_ERROR"
        /\ Get(error).detail = parseFilterString(Get(run.parsed)).error
        /\ NoListing

\* C3 witness: Scenario C, "priority >>> 3".
C3_Witness ==
    /\ pc = "Failed"
    /\ run.parsed = Some(FilterScenarioC)
    /\ Get(error).detail = "UnknownOperator"

\* The request's filterId was looked up and no saved filter has it.
LookupMissed == run.storageGet >= 1 /\ ~IsSome(run.saved)

\* C4: a filterId that is not in the session storage ends the request in
\* Failed with a NOT_FOUND error: nothing is parsed, listed or fetched and no
\* task list is returned.
C4_MissingFilterIdNotFound ==
    LookupMissed =>
        /\ pc = "Failed"
        /\ IsSome(error)
        /\ Get(error).mcp
        /\ Get(error).code = "NOT_FOUND"
        /\ run.parse = 0
        /\ NoListing

\* C4 witness: a missing id together with an inline filter that parses.
C4_Witness ==
    /\ pc = "Failed"
    /\ LookupMissed
    /\ args.filterId = Some(MissingId)
    /\ args.filter = Some(FilterPriority)

\* The request has neither filter nor filterId and is past its resolution.
NoFilterGiven ==
    /\ pc \in {"NoFilter", "Done", "Failed"}
    /\ ~IsSome(args.filter)
    /\ ~IsSome(args.filterId)

\* C5: a request with neither filter nor filterId parses nothing and
\* evaluates nothing, and returns the remote's listing as it is with
\* serverSideFilteringUsed = false and serverSideFilteringAttempted = false.
C5_NoFilterPassThrough ==
    NoFilterGiven =>
        /\ run.parse = 0
        /\ run.evaluate = 0
        /\ run.storageGet = 0
        /\ run.remoteFiltered = 0
        /\ run.fallbackFetch = 0
        /\ ~IsSome(ast)
        /\ pc = "Done" =>
              /\ ResponseOf.tasks = Get(run.answer)
              /\ ResponseOf.metadata.serverSideFilteringUsed = FALSE
              /\ ResponseOf.metadata.serverSideFilteringAttempted = FALSE

C5_Witness ==
    /\ pc = "Done"
    /\ NoFilterGiven
    /\ run.remotePlain = 1
    /\ ResponseOf.tasks = AllTasks

\* The remote filtered call of this request succeeded.
RemoteSucceeded == run.remoteFiltered >= 1 /\ IsSome(run.answer)

\* C6: when the remote filtered call succeeds, the response has
\* serverSideFilteringUsed = true and exactly the tasks the remote returned,
\* the Evaluator has not run and the request never is in ClientFallback.
C6_ServerResultAsIs ==
    RemoteSucceeded =>
        /\ pc = "Done"
        /\ ResponseOf.metadata.serverSideFilteringUsed = TRUE
        /\ ResponseOf.tasks = Get(run.answer)
        /\ run.evaluate = 0
        /\ run.fallbackFetch = 0

\* C6 witness: the remote answered Scenario A with a task the Evaluator rejects.
C6_Witness ==
    /\ pc = "Done"
    /\ RemoteSucceeded
    /\ run.forwarded = Some(FilterScenarioA)
    /\ ResponseOf.tasks = <<Task3>>
    /\ ~evaluate(Get(ast), Task3)

\* The order of the states of a request: every step goes up in it.
Rank(p) ==
    CASE p = "Idle" -> 0
      [] p = "Start" -> 1
      [] p = "ResolveFilter" -> 2
      [] p \in {"NoFilter", "AttemptServer"} -> 3
      [] p = "ClientFallback" -> 4
      [] OTHER -> 5

StepGoesUp ==
    pc \in Running => (pc' \in Running \cup Terminal /\ Rank(pc') > Rank(pc))

\* C7: every request in flight eventually is Done or Failed, when each
\* awaited call eventually returns or fails; every state other than Done and
\* Failed has a step to take, Done and Failed have none, and every step
\* between states of a request goes up in their order, so there is no cycle.
C7_EventuallyDoneOrFailed ==
    /\ (pc \in Running) ~> (pc \in Terminal)
    /\ [](pc \in Running => ENABLED Step)
    /\ [](pc \in Terminal => ~ENABLED Step)
    /\ [][StepGoesUp]_vars

\* C7 witness: a request that went the longest way and ended.
C7_Witness ==
    /\ pc \in Terminal
    /\ run.storageGet = 1
    /\ run.parse = 1
    /\ run.remoteFiltered = 1
    /\ run.fallbackFetch = 1
    /\ IsSome(error)

\* The request has both an inline filter string and a filterId.
BothGiven == IsSome(args.filter) /\ IsSome(args.filterId)

\* C8: when a request has both an inline filter string and a filterId, the
\* string that is parsed, forwarded to the remote and evaluated in the
\* fallback is the inline one, not the saved filter's.
C8_InlineTakesPrecedence ==
    BothGiven =>
        /\ pc \in {"AttemptServer", "ClientFallback", "Done"} => run.parsed = args.filter
        /\ IsSome(run.parsed) => run.parsed = args.filter
        /\ IsSome(run.forwarded) => run.forwarded = args.filter
        /\ IsSome(ast) => ast = parseFilterString(Get(args.filter)).expression
        /\ (pc = "Done" /\ IsSome(run.fetched)) =>
              ResponseOf.tasks =
                  Paginate(applyClientSideFilter(
                               Get(run.fetched),
                               Get(parseFilterString(Get(args.filter)).expression)),
                           args.page, args.perPage)

\* C8 witness: inline "done = true" with a saved Scenario A: the fallback
\* returns the task only the inline filter accepts.
C8_Witness ==
    /\ pc = "Done"
    /\ BothGiven
    /\ args.filter = Some(FilterDone)
    /\ IsSome(run.saved)
    /\ Get(run.saved).filter = FilterScenarioA
    /\ run.fetched = Some(<<Task1, Task2, Task3>>)
    /\ ResponseOf.tasks = <<Task3>>

\* C9: no step of a listing request, successful or failed, changes the saved
\* filters in storage.
C9_ListingLeavesStorage ==
    [][(pc # "Idle" \/ pc' # "Idle") => storage' = storage]_vars

\* C9 witness: a request that read a saved filter's string and ended.
C9_Witness ==
    /\ pc = "Done"
    /\ run.storageGet = 1
    /\ IsSome(run.saved)
    /\ ~IsSome(args.filter)
    /\ run.parsed = Some(Get(run.saved).filter)
    /\ storageGet(storage, Get(args.filterId)) = run.saved

----------------------------------------------------------------------------
(* FilterBuilder: where(), and(), or(), toString()                          *)

NewBuilder == [conditions |-> <<>>, joins |-> <<>>, pending |-> None]

\* The first where() is the initial leaf; a later one is joined to the chain
\* by the combinator asked for just before it, && when none was.
builderWhere(b, f, op, v) ==
    [conditions |-> Append(b.conditions, Condition(f, op, v)),
     joins |-> IF Len(b.conditions) = 0 THEN b.joins
               ELSE Append(b.joins, IF IsSome(b.pending) THEN Get(b.pending) ELSE "&&"),
     pending |-> None]
builderAnd(b) == [b EXCEPT !.pending = Some("&&")]
builderOr(b) == [b EXCEPT !.pending = Some("||")]

RECURSIVE SetToSeq(_)
SetToSeq(S) ==
    IF S = {} THEN <<>>
    ELSE LET m == CHOOSE x \in S : \A y \in S : x <= y IN <<m>> \o SetToSeq(S \ {m})

RECURSIVE Interleave(_, _)
Interleave(items, sep) ==
    IF Len(items) = 0 THEN <<>>
    ELSE IF Len(items) = 1 THEN <<items[1]>>
    ELSE <<items[1], sep>> \o Interleave(Tail(items), sep)

\* A value in the canonical form of the grammar.
ValueTokens(v) ==
    CASE v.kind = "number" -> <<ToString(v.n)>>
      [] v.kind = "boolean" -> <<IF v.b THEN "true" ELSE "false">>
      [] v.kind = "array" ->
           <<"(">> \o Interleave([i \in 1..Cardinality(v.arr) |->
                                    ToString(SetToSeq(v.arr)[i])], ",") \o <<")">>
      [] OTHER -> <<v.s>>

ConditionTokens(c) == <<c.field, c.operator>> \o ValueTokens(c.value)

RECURSIVE ChainTokens(_, _, _)
ChainTokens(conds, joins, i) ==
    IF i > Len(conds) THEN <<>>
    ELSE (IF i = 1 THEN <<>> ELSE <<joins[i - 1]>>)
         \o ConditionTokens(conds[i]) \o ChainTokens(conds, joins, i + 1)

builderToStringAndOnly(b) ==
    ChainTokens(b.conditions, [i \in 1..Len(b.joins) |-> "&&"], 1)

builderToString(b) == ChainTokens(b.conditions, b.joins, 1)

----------------------------------------------------------------------------
(* storage.create / storage.update                                          *)

IdOf(n) == "f" \o ToString(n)

\* create stores the filter under a fresh id, after the others.
storageCreate(st, n, data) ==
    Append(st, SavedFilter(IdOf(n + 1), data.name, data.filter, data.isGlobal,
                           data.description, data.projectId))

\* update overwrites the fields that are given.
Merge(f, data) ==
    [id |-> f.id,
     name |-> IF IsSome(data.name) THEN Get(data.name) ELSE f.name,
     filter |-> IF IsSome(data.filter) THEN Get(data.filter) ELSE f.filter,
     isGlobal |-> IF IsSome(data.isGlobal) THEN Get(data.isGlobal) ELSE f.isGlobal,
     description |-> IF IsSome(data.description) THEN data.description ELSE f.description,
     projectId |-> IF IsSome(data.projectId) THEN data.projectId ELSE f.projectId]

storageUpdate(st, id, data) ==
    [i \in 1..Len(st) |-> IF st[i].id = id THEN Merge(st[i], data) ELSE st[i]]

----------------------------------------------------------------------------
(* vikunja_filters: create, update, delete *)

TruthyString(o) == IsSome(o) /\ Get(o) # ""
TruthyFilter(o) == IsSome(o) /\ Get(o) # <<>>

Reply(tool, action, status, message) ==
    [tool |-> tool, action |-> action, status |-> status, message |-> message]

\* The handler's catch: whatever was thrown inside the try, an MCPError or
\* not, is answered with an error response (status error, success false);
\* nothing is rethrown.
FiltersCatchRethrowMCP(mcp) == IF mcp THEN "thrown" ELSE "error"

FiltersCatch(mcp) == "error"

\* CreateFilterSchema's refine: a name or a title, and a filter or filters.
CreateSchemaOk(p) ==
    /\ TruthyString(p.name) \/ TruthyString(p.title)
    /\ TruthyFilter(p.filter) \/ IsSome(p.filters)

CreateName(p) == IF TruthyString(p.name) THEN Get(p.name) ELSE Get(p.title)

\* The value of condition i as the builder gets it: a number for priority and
\* percentDone, a boolean for done, the string otherwise.  Number() of a
\* string that is no number is NaN, which serializes as the word NaN.
TypedValue(field, value) ==
    IF field \in {"priority", "percentDone"}
    THEN IF value \in NumberLiterals THEN NumV(NumOf(value)) ELSE StrV("NaN")
    ELSE IF field = "done" THEN BoolV(value = "true")
    ELSE StrV(value)

\* The conditions of a filters object from index i on; a condition whose
\* value is empty or missing is skipped.
RECURSIVE CollectConditions(_, _)
CollectConditions(fo, i) ==
    IF i > Len(Get(fo.filter_by)) THEN <<>>
    ELSE LET field == Get(fo.filter_by)[i]
             hasValue == i <= Len(Get(fo.filter_value)) /\ Get(fo.filter_value)[i] # ""
         IN (IF hasValue
             THEN <<Condition(field, Get(fo.filter_comparator)[i],
                              TypedValue(field, Get(fo.filter_value)[i]))>>
             ELSE <<>>) \o CollectConditions(fo, i + 1)

RECURSIVE BuildChainAlwaysAnd(_, _, _, _)
BuildChainAlwaysAnd(b, conds, i, concat) ==
    IF i > Len(conds) THEN b
    ELSE BuildChainAlwaysAnd(builderWhere(IF i = 1 THEN b ELSE builderAnd(b),
                                          conds[i].field, conds[i].operator,
                                          conds[i].value),
                             conds, i + 1, concat)

RECURSIVE BuildChain(_, _, _, _)
BuildChain(b, conds, i, concat) ==
    IF i > Len(conds) THEN b
    ELSE LET joined == IF i = 1 THEN b
                       ELSE IF concat = Some("||") THEN builderOr(b) ELSE builderAnd(b)
         IN BuildChain(builderWhere(joined, conds[i].field, conds[i].operator,
                                    conds[i].value),
                       conds, i + 1, concat)

\* The filter string of a create: the one given, else the one built from
\* the filters object.
CreateFilterString(p) ==
    IF TruthyFilter(p.filter) THEN Get(p.filter)
    ELSE IF IsSome(p.filters)
         THEN LET fo == Get(p.filters) IN
              IF IsSome(fo.filter_by) /\ IsSome(fo.filter_value)
                 /\ IsSome(fo.filter_comparator)
              THEN builderToString(BuildChain(NewBuilder, CollectConditions(fo, 1), 1,
                                              fo.filter_concat))
              ELSE builderToString(NewBuilder)
         ELSE <<>>

CreateData(p) ==
    [name |-> CreateName(p),
     filter |-> CreateFilterString(p),
     isGlobal |-> (p.isGlobal \/ (IsSome(p.is_favorite) /\ Get(p.is_favorite))),
     description |-> IF TruthyString(p.description) THEN p.description ELSE None,
     projectId |-> p.projectId]

CreateNameNeverTaken(st, name) == FALSE

\* The name check of create: a stored filter has the name.
CreateNameTaken(st, name) == IsSome(storageFindByName(st, name))

FiltersCreate(p) ==
    /\ pc = "Idle"
    /\ nextId < MaxFilters
    /\ IF ~CreateSchemaOk(p)
       THEN /\ reply' = Reply("filters", "create", FiltersCatch(FALSE), "schema")
            /\ UNCHANGED <<storage, nextId>>
       ELSE IF CreateFilterString(p) = <<>>
       THEN /\ reply' = Reply("filters", "create", FiltersCatch(TRUE),
                             "No filter conditions provided")
            /\ UNCHANGED <<storage, nextId>>
       ELSE IF CreateNameTaken(storage, CreateName(p))
       THEN /\ reply' = Reply("filters", "create", FiltersCatch(TRUE), "already exists")
            /\ UNCHANGED <<storage, nextId>>
       ELSE /\ storage' = storageCreate(storage, nextId, CreateData(p))
            /\ nextId' = nextId + 1
            /\ reply' = Reply("filters", "create", "ok", "")
    /\ UNCHANGED clock
    /\ UNCHANGED listVars

\* The name check of update: only a non-empty new name is looked up, and a
\* filter other than the updated one having it rejects the update.
UpdateNameTaken(st, id, name) ==
    /\ TruthyString(name)
    /\ LET existing == storageFindByName(st, Get(name)) IN
       IsSome(existing) /\ Get(existing).id # id

UpdateDataTruthyOnly(p) ==
    [name |-> IF TruthyString(p.name) THEN p.name ELSE None,
     description |-> IF TruthyString(p.description) THEN p.description ELSE None,
     filter |-> IF TruthyFilter(p.filter) THEN p.filter ELSE None,
     projectId |-> p.projectId, isGlobal |-> p.isGlobal]

\* updateData: the fields of the request that are not undefined.
UpdateData(p) ==
    [name |-> p.name, description |-> p.description, filter |-> p.filter,
     projectId |-> p.projectId, isGlobal |-> p.isGlobal]

UpdateFields == {"name", "description", "filter", "projectId", "isGlobal"}

\* affectedFields: the keys of updateData whose value is not undefined.
AffectedFields(data) == {k \in UpdateFields : IsSome(data[k])}

FiltersUpdate(p) ==
    /\ pc = "Idle"
    /\ IF UpdateNameTaken(storage, p.id, p.name)
       THEN /\ reply' = Reply("filters", "update", FiltersCatch(TRUE), "already exists")
            /\ UNCHANGED storage
       ELSE IF ~IsSome(storageGet(storage, p.id))
       THEN /\ reply' = Reply("filters", "update", FiltersCatch(FALSE), "not found")
            /\ UNCHANGED storage
       ELSE /\ storage' = storageUpdate(storage, p.id, UpdateData(p))
            /\ reply' = [tool |-> "filters", action |-> "update", status |-> "ok",
                         message |-> "", data |-> AffectedFields(UpdateData(p))]
    /\ UNCHANGED <<nextId, clock>>
    /\ UNCHANGED listVars

\* delete looks the filter up before deleting it.
DeleteFoundAlways(st, id) == TRUE

DeleteFound(st, id) == IsSome(storageGet(st, id))

FiltersDelete(id) ==
    /\ pc = "Idle"
    /\ IF ~DeleteFound(storage, id)
       THEN /\ reply' = Reply("filters", "delete", FiltersCatch(TRUE), "not found")
            /\ UNCHANGED storage
       ELSE /\ storage' = storageDelete(storage, id)
            /\ reply' = Reply("filters", "delete", "ok", "")
    /\ UNCHANGED <<nextId, clock>>
    /\ UNCHANGED listVars

----------------------------------------------------------------------------
(* vikunja_templates: create *)

\* `template_${Date.now()}`
TemplateId(now) == "template_" \o ToString(now)

TemplateData(a, now, project, tasks) ==
    [id |-> TemplateId(now),
     name |-> Get(a.name),
     description |-> IF TruthyString(a.description) THEN a.description ELSE None,
     created |-> ToString(now),
     tags |-> IF IsSome(a.tags) THEN Get(a.tags) ELSE <<>>,
     projectData |-> [title |-> project.title],
     tasks |-> [i \in 1..Len(tasks) |->
                  [title |-> tasks[i].title,
                   labels |-> IF Len(tasks[i].labels) > 0
                              THEN Some(tasks[i].labels) ELSE None]]]

\* JSON.stringify of the tasks of a template, as the tokens of the text.
RECURSIVE TasksTokens(_)
TasksTokens(tasks) ==
    IF Len(tasks) = 0 THEN <<>>
    ELSE LET t == Head(tasks) IN
         <<"{", "title", t.title>>
         \o (IF IsSome(t.labels)
             THEN <<"labels", "[">>
                  \o [k \in 1..Len(Get(t.labels)) |-> ToString(Get(t.labels)[k])]
                  \o <<"]">>
             ELSE <<>>)
         \o <<"}">> \o TasksTokens(Tail(tasks))

\* JSON.stringify of a template, as the tokens of the text.
JsonStringify(t) ==
    <<"{", "id", t.id, "name", t.name>>
    \o (IF IsSome(t.description) THEN <<"description", Get(t.description)>> ELSE <<>>)
    \o <<"created", t.created, "tags", "[">> \o t.tags
    \o <<"]", "projectData", "{", "title", t.projectData.title, "}", "tasks", "[">>
    \o TasksTokens(t.tasks)
    \o <<"]", "variables", "{", "}", "}">>

\* JSON.parse of a stored filter string: the text of a template gives the
\* template back, and a filter expression or the empty string is not JSON.
JsonFail == [ok |-> FALSE, template |-> None]

Until(toks, i, stop) ==
    CHOOSE j \in i..Len(toks) : toks[j] = stop /\ \A k \in i..(j - 1) : toks[k] # stop

RECURSIVE JsonParseTasks(_, _)
JsonParseTasks(toks, i) ==
    IF toks[i] = "]" THEN <<>>
    ELSE LET hasLabels == toks[i + 3] = "labels"
             close == IF hasLabels THEN Until(toks, i + 5, "]") ELSE i + 2
             labels == IF hasLabels
                       THEN Some([k \in 1..(close - (i + 5)) |-> NumOf(toks[i + 4 + k])])
                       ELSE None
         IN <<[title |-> toks[i + 2], labels |-> labels]>>
            \o JsonParseTasks(toks, close + 2)

JsonParse(toks) ==
    IF Len(toks) = 0 \/ toks[1] # "{" THEN JsonFail
    ELSE LET hasDescription == toks[6] = "description"
             c == IF hasDescription THEN 8 ELSE 6
             tagsEnd == Until(toks, c + 4, "]")
         IN [ok |-> TRUE,
             template |->
                Some([id |-> toks[3],
                      name |-> toks[5],
                      description |-> IF hasDescription THEN Some(toks[7]) ELSE None,
                      created |-> toks[c + 1],
                      tags |-> SubSeq(toks, c + 4, tagsEnd - 1),
                      projectData |-> [title |-> toks[tagsEnd + 4]],
                      tasks |-> JsonParseTasks(toks, tagsEnd + 8)])]

\* The saved filter a template is stored as.
TemplateFilter(t) ==
    [name |-> t.id, filter |-> JsonStringify(t), isGlobal |-> TRUE,
     description |-> None, projectId |-> None]

\* The handler checks the session, gets the client, then creates: the source
\* project and its tasks are read from the server, and a failure of either
\* read is rethrown as API_ERROR.
TemplatesCreate(a, authenticated, clientOk, project, tasks, remoteOk) ==
    /\ pc = "Idle"
    /\ nextId < MaxFilters
    /\ IF IsSome(TemplatesPrologue(authenticated, clientOk).error)
       THEN /\ reply' = Reply("templates", "create", "thrown",
                             TemplatesCatch(Get(TemplatesPrologue(authenticated,
                                                                  clientOk).error)).code)
            /\ UNCHANGED <<storage, nextId>>
       ELSE IF ~(IsSome(a.projectId) /\ Get(a.projectId) # 0 /\ TruthyString(a.name))
       THEN /\ reply' = Reply("templates", "create", "thrown", "VALIDATION_ERROR")
            /\ UNCHANGED <<storage, nextId>>
       ELSE IF ~remoteOk
       THEN /\ reply' = Reply("templates", "create", "thrown", "API_ERROR")
            /\ UNCHANGED <<storage, nextId>>
       ELSE LET t == TemplateData(a, clock, project, tasks) IN
            /\ storage' = storageCreate(storage, nextId, TemplateFilter(t))
            /\ nextId' = nextId + 1
            /\ reply' = Reply("templates", "create", "ok", "")
    /\ UNCHANGED clock
    /\ UNCHANGED listVars

\* A millisecond passes.
Tick ==
    /\ clock < MaxClock
    /\ clock' = clock + 1
    /\ UNCHANGED <<storage, nextId, reply>>
    /\ UNCHANGED listVars

----------------------------------------------------------------------------
(* The requests the model draws for the two tools *)

NoFilters ==
    [filter_by |-> None, filter_value |-> None, filter_comparator |-> None,
     filter_concat |-> None]

FiltersObjects ==
    {[filter_by |-> Some(<<"priority", "done">>), filter_value |-> Some(<<"3", "true">>),
      filter_comparator |-> Some(<<">=", "=">>), filter_concat |-> c] :
         c \in {None, Some("||")}}
    \cup {[filter_by |-> Some(<<"priority", "done">>), filter_value |-> Some(<<"", "true">>),
           filter_comparator |-> Some(<<">=", "=">>), filter_concat |-> None],
          [filter_by |-> Some(<<"priority">>), filter_value |-> Some(<<"">>),
           filter_comparator |-> Some(<<">=">>), filter_concat |-> None],
          [filter_by |-> Some(<<"priority", "done">>), filter_value |-> Some(<<"3">>),
           filter_comparator |-> Some(<<">=", "=">>), filter_concat |-> Some("||")],
          NoFilters}

CreateDefaults ==
    [name |-> None, title |-> None, filter |-> None, filters |-> None,
     description |-> None, projectId |-> None, isGlobal |-> FALSE, is_favorite |-> None]

CreateRequests ==
    {[CreateDefaults EXCEPT !.name = Some(n), !.filter = Some(FilterPriority)] :
         n \in {"a", "b", TemplateId(0)}}
    \cup {[CreateDefaults EXCEPT !.title = Some("a"), !.filters = Some(fo)] :
             fo \in FiltersObjects}
    \cup {[CreateDefaults EXCEPT !.name = Some("b"), !.filter = Some(FilterDone),
                                !.filters = Some(NoFilters),
                                !.description = Some("d"), !.projectId = Some(1),
                                !.is_favorite = Some(TRUE)],
          [CreateDefaults EXCEPT !.filter = Some(FilterDone)],
          [CreateDefaults EXCEPT !.name = Some("a"), !.filter = Some(FilterEmpty)]}

UpdateIds == {IdOf(n) : n \in 1..MaxFilters} \cup {MissingId}

UpdateDefaults(id) ==
    [id |-> id, name |-> None, description |-> None, filter |-> None,
     projectId |-> None, isGlobal |-> None]

UpdateRequests ==
    UNION {
        {[UpdateDefaults(id) EXCEPT !.name = Some(n)] : n \in {"b", ""}}
        \cup {[UpdateDefaults(id) EXCEPT !.filter = Some(FilterEmpty)],
              [UpdateDefaults(id) EXCEPT !.name = Some("a"), !.filter = Some(FilterScenarioC)],
              [UpdateDefaults(id) EXCEPT !.description = Some("d2"),
                                         !.projectId = Some(2),
                                         !.isGlobal = Some(TRUE)],
              UpdateDefaults(id)}
        : id \in UpdateIds}

TemplateRequests ==
    {[projectId |-> Some(1), name |-> Some("tpl"), description |-> Some("d"),
      tags |-> Some(<<"x">>)],
     [projectId |-> None, name |-> Some("tpl"), description |-> None, tags |-> None]}

SourceProject == [title |-> "P"]
\* The n-th task of the source project; the even ones carry a label.
SourceTask(n) ==
    [title |-> "t" \o ToString(n), labels |-> IF n % 2 = 0 THEN <<1>> ELSE <<>>]
SourceTasks == {<<SourceTask(1)>>}

StoreInit ==
    /\ storage = <<>>
    /\ nextId = 0
    /\ clock = 0
    /\ reply = NoReply
    /\ pc = "Idle"
    /\ args = NoArgs
    /\ ast = None
    /\ meta = NoMeta
    /\ run = NoRun
    /\ response = None
    /\ error = None
    /\ creating = NoneCreating

StoreNext ==
    \/ \E p \in CreateRequests : FiltersCreate(p)
    \/ \E p \in UpdateRequests : FiltersUpdate(p)
    \/ \E id \in UpdateIds : FiltersDelete(id)
    \/ \E a \in TemplateRequests, tasks \in SourceTasks,
          authenticated \in BOOLEAN, clientOk \in BOOLEAN, remoteOk \in BOOLEAN :
          TemplatesCreate(a, authenticated, clientOk, SourceProject, tasks, remoteOk)
    \/ Tick

StoreSpec == StoreInit /\ [][StoreNext]_vars

\* The filters tool creating and deleting saved filters, nothing else.
CreateNext ==
    \/ \E p \in CreateRequests : FiltersCreate(p)
    \/ \E id \in UpdateIds : FiltersDelete(id)

CreateSpec == StoreInit /\ [][CreateNext]_vars

----------------------------------------------------------------------------
(* Properties of the saved filters *)

\* C10, as claimed: no two stored saved filters have the same name.
C10_NamesUnique ==
    \A i, j \in 1..Len(storage) : storage[i].name = storage[j].name => i = j

\* C11, as claimed: the filter field of every stored saved filter is a
\* non-empty string on which parseFilterString succeeds.
C11_StoredFilterParses ==
    \A i \in 1..Len(storage) :
        /\ storage[i].filter # <<>>
        /\ parseFilterString(storage[i].filter).ok

----------------------------------------------------------------------------
(* validateFilterExpression: compatibility of field kind, operator, value   *)

OrderingOperators == {">", ">=", "<", "<="}
MembershipOperators == {"in", "not in"}

\* The value matches the field's kind or can be coerced to it.
Coercible(kind, v) ==
    CASE kind = "number" ->
           v.kind = "number" \/ (v.kind = "string" /\ v.s \in NumberLiterals)
      [] kind = "boolean" ->
           v.kind = "boolean" \/ (v.kind = "string" /\ v.s \in {"true", "false"})
      [] OTHER -> TRUE

ConditionErrors(c) ==
    LET kind == FieldKind(c.field) IN
    (IF (c.operator \in OrderingOperators /\ kind \notin {"number", "date"})
        \/ (c.operator = "like" /\ kind # "string")
     THEN <<"operator " \o c.operator \o " is not valid for field " \o c.field>>
     ELSE <<>>)
    \o (IF ~Coercible(kind, c.value)
        THEN <<"value of field " \o c.field \o " is not a " \o kind>>
        ELSE <<>>)

ConditionWarnings(c) ==
    IF c.operator \in MembershipOperators /\ FieldKind(c.field) # "array"
    THEN <<"operator " \o c.operator \o " on field " \o c.field \o ": use = instead">>
    ELSE <<>>

\* The leaves of an expression from left to right, and its combinators.
RECURSIVE Leaves(_)
Leaves(e) ==
    IF e.type = "condition" THEN <<e>> ELSE Leaves(e.left) \o Leaves(e.right)

RECURSIVE CombinatorsOf(_)
CombinatorsOf(e) ==
    IF e.type = "condition" THEN {}
    ELSE {e.combinator} \cup CombinatorsOf(e.left) \cup CombinatorsOf(e.right)

RECURSIVE Concat(_)
Concat(seqs) == IF Len(seqs) = 0 THEN <<>> ELSE Head(seqs) \o Concat(Tail(seqs))

validateFilterExpression(e) ==
    LET leaves == Leaves(e)
        errors == Concat([i \in 1..Len(leaves) |-> ConditionErrors(leaves[i])])
        warnings ==
            Concat([i \in 1..Len(leaves) |-> ConditionWarnings(leaves[i])])
            \o (IF Cardinality(CombinatorsOf(e)) > 1
                THEN <<"&& and || are mixed in one chain">> ELSE <<>>)
    IN [valid |-> errors = <<>>, errors |-> errors, warnings |-> warnings]

----------------------------------------------------------------------------
(* vikunja_filters: build, validate *)

\* The expression a builder has accumulated: a left-associative chain.
RECURSIVE builderExpression(_, _, _)
builderExpression(conds, joins, n) ==
    IF n = 1 THEN conds[1]
    ELSE BinaryNode(joins[n - 1], builderExpression(conds, joins, n - 1), conds[n])

\* A reply together with the call it answers.
ReplyTo(tool, action, status, message, request, data) ==
    [tool |-> tool, action |-> action, status |-> status, message |-> message,
     request |-> request, data |-> data]

\* BuildFilterSchema: every field and operator is one of the enum, the
\* groupOperator, when given, is && or ||.
BuildSchemaOk(p) ==
    /\ \A i \in 1..Len(p.conditions) :
          /\ p.conditions[i].field \in FilterFields
          /\ p.conditions[i].operator \in FilterOperators
    /\ IsSome(p.groupOperator) => Get(p.groupOperator) \in Combinators

\* The forEach body of build: or() before every condition but the first
\* when the groupOperator is ||, then where().
BuildJoinAlwaysAnd(b, index, groupOperator) == b

BuildJoin(b, index, groupOperator) ==
    IF index > 1 /\ groupOperator = Some("||") THEN builderOr(b) ELSE b

RECURSIVE BuildEach(_, _, _, _)
BuildEach(b, conds, index, groupOperator) ==
    IF index > Len(conds) THEN b
    ELSE BuildEach(builderWhere(BuildJoin(b, index, groupOperator),
                                conds[index].field, conds[index].operator,
                                conds[index].value),
                   conds, index + 1, groupOperator)

BuildBuilder(p) == BuildEach(NewBuilder, p.conditions, 1, p.groupOperator)

\* The data of build's response.
BuildData(p) ==
    [filter |-> builderToString(BuildBuilder(p)),
     valid |-> TRUE,
     warnings |-> <<>>,
     conditionCount |-> Len(p.conditions)]

FiltersBuild(p) ==
    /\ pc = "Idle"
    /\ IF ~BuildSchemaOk(p)
       THEN reply' = ReplyTo("filters", "build", FiltersCatch(FALSE), "schema", p, None)
       ELSE reply' = ReplyTo("filters", "build", "ok", "Filter built successfully",
                             p, Some(BuildData(p)))
    /\ UNCHANGED <<storage, nextId, clock>>
    /\ UNCHANGED listVars

\* The data of validate's response, for a string that parsed.
ValidateData(p, expression) ==
    LET validationResult == validateFilterExpression(expression) IN
    [valid |-> validationResult.valid,
     warnings |-> validationResult.warnings,
     errors |-> validationResult.errors,
     filter |-> p.filter]

FiltersValidate(p) ==
    /\ pc = "Idle"
    /\ LET parseResult == parseFilterString(p.filter) IN
       IF ~IsSome(parseResult.expression)
       THEN reply' = ReplyTo("filters", "validate", FiltersCatch(TRUE),
                             "Invalid filter: " \o parseResult.error, p, None)
       ELSE LET data == ValidateData(p, Get(parseResult.expression)) IN
            reply' = ReplyTo("filters", "validate", "ok",
                             IF data.valid THEN "Filter is valid"
                             ELSE "Filter validation failed",
                             p, Some(data))
    /\ UNCHANGED <<storage, nextId, clock>>
    /\ UNCHANGED listVars

----------------------------------------------------------------------------
(* The requests the model draws for build and validate *)

\* conditions a build request has at most
MaxConditions == 2

BuildConditions ==
    {[field |-> "priority", operator |-> ">=", value |-> NumV(3)],
     [field |-> "done", operator |-> "=", value |-> BoolV(FALSE)],
     [field |-> "labels", operator |-> "in", value |-> ArrV({1, 2})],
     [field |-> "title", operator |-> "like", value |-> StrV("foo")],
     [field |-> "priority", operator |-> "=", value |-> StrV("abc")],
     [field |-> "done", operator |-> ">", value |-> BoolV(TRUE)]}

ConditionLists ==
    UNION {[1..n -> BuildConditions] : n \in 0..MaxConditions}

BuildRequests ==
    {[conditions |-> cs, groupOperator |-> g] :
        cs \in ConditionLists, g \in {None, Some("&&"), Some("||")}}
    \cup {[conditions |-> <<[field |-> "owner", operator |-> "=", value |-> StrV("x")]>>,
           groupOperator |-> None]}

FilterOrdering == <<"done", ">", "true">>
FilterMembership == <<"title", "in", "(", "1", ")">>
FilterMixed ==
    <<"priority", ">=", "3", "&&", "done", "=", "false", "||", "done", "=", "true">>
FilterNotNumber == <<"priority", "=", "abc">>

ValidateRequests ==
    {[filter |-> f] :
        f \in FilterStrings
              \cup {FilterOrdering, FilterMembership, FilterMixed, FilterNotNumber}}

ToolNext ==
    \/ \E p \in BuildRequests : FiltersBuild(p)
    \/ \E p \in ValidateRequests : FiltersValidate(p)

ToolSpec == StoreInit /\ [][ToolNext]_vars

----------------------------------------------------------------------------
(* Properties of build and validate *)

BuildReplied == reply.action = "build"
BuildSucceeded == BuildReplied /\ reply.status = "ok"
ValidateReplied == reply.action = "validate"

\* C12, as claimed: a build with an empty conditions list does not return a
\* successfully built filter.
C12_EmptyBuildRejected ==
    (BuildReplied /\ Len(reply.request.conditions) = 0) => reply.status = "error"

\* The conditions of a build request as leaves of an expression.
RequestLeaves(p) ==
    [i \in 1..Len(p.conditions) |->
        Condition(p.conditions[i].field, p.conditions[i].operator,
                  p.conditions[i].value)]

\* Every right operand of the chain is a leaf.
RECURSIVE IsFlatChain(_)
IsFlatChain(e) ==
    \/ e.type = "condition"
    \/ e.right.type = "condition" /\ IsFlatChain(e.left)

C14_ValidateResult ==
    ValidateReplied =>
        /\ reply.status = "ok"
        /\ IsSome(reply.data)
        /\ {"valid", "errors", "warnings"} \subseteq DOMAIN Get(reply.data)
        /\ ~Get(reply.data).valid => Get(reply.data).errors # <<>>

\* C15, as claimed: build reports valid = true only for a built expression
\* on which validateFilterExpression returns valid = true.
C15_BuildValidOnlyIfValidates ==
    (BuildSucceeded /\ Len(reply.request.conditions) >= 1 /\ Get(reply.data).valid) =>
        LET b == BuildBuilder(reply.request) IN
        validateFilterExpression(
            builderExpression(b.conditions, b.joins, Len(b.conditions))).valid

\* Task records the round trip is evaluated on.
Task5 == [id |-> 5, priority |-> 3, done |-> TRUE, labels |-> {1}, title |-> "foo"]
EvalTasks == {Task1, Task2, Task3, Task4, Task5}

----------------------------------------------------------------------------
(* Properties of the evaluator, of the listing response and of create *)

\* Values a leaf condition is evaluated with.
LeafValues ==
    {NumV(3), BoolV(TRUE), BoolV(FALSE), StrV("foo"), ArrV({1, 2}), ArrV({})}

\* Every leaf over every field and operator is false on a task record that
\* lacks the field.
LeafFailsClosed ==
    \A f \in FilterFields, op \in FilterOperators, v \in LeafValues, t \in EvalTasks :
        f \notin DOMAIN t => ~evaluate(Condition(f, op, v), t)

\* The request ended by the fallback with a single-condition filter.
FallbackOnLeaf ==
    /\ pc = "Done"
    /\ IsSome(run.fetched)
    /\ Get(ast).type = "condition"

\* C17: a leaf condition, whatever its operator, != and not in included, is
\* false on a task record that lacks its field; and the client-side fallback
\* of a single-condition filter returns no task that lacks the field.
C17_FailClosed ==
    /\ LeafFailsClosed
    /\ FallbackOnLeaf =>
          \A i \in 1..Len(ResponseOf.tasks) :
              Get(ast).field \in DOMAIN ResponseOf.tasks[i]

\* C17 witness: "priority != 3" over a collection with the task that has no
\* priority: the fallback returns the three others.
C17_Witness ==
    /\ FallbackOnLeaf
    /\ run.parsed = Some(FilterNotPriority)
    /\ run.fetched = Some(AllTasks)
    /\ ResponseOf.tasks = <<Task1, Task2, Task3>>

RequestCalls ==
    <<run.storageGet, run.parse, run.remoteFiltered, run.remotePlain, run.fallbackFetch>>

\* C19: a request that failed has an MCPError for its caller and no
\* response; the error of a missing saved filter or of a parse failure is
\* the orchestrator's own, code and detail unchanged; an error is never
\* followed by another call of the same request, only by the next request.
C19_ErrorsSurfaced ==
    /\ [](pc = "Failed" =>
            /\ IsSome(error)
            /\ Get(error).mcp
            /\ ~IsSome(response)
            /\ LookupMissed => Get(error) = MCPError("NOT_FOUND", Get(args.filterId))
            /\ ParseFailed =>
                  Get(error) = MCPError("VALIDATION_ERROR",
                                        parseFilterString(Get(run.parsed)).error))
    /\ [](IsSome(error) => pc = "Failed")
    /\ [](\A i \in 1..Len(RequestCalls) : RequestCalls[i] <= 1)
    /\ [][IsSome(error) => (pc' = "Idle" /\ error' = None)]_vars

\* C19 witness: the fallback's own fetch failed, after the remote attempt.
C19_Witness ==
    /\ pc = "Failed"
    /\ run.remoteFiltered = 1
    /\ run.fallbackFetch = 1
    /\ error = Some(MCPError("API_ERROR", "fetch"))

\* The last step was a successful filters create.
CreateStored ==
    /\ reply'.tool = "filters"
    /\ reply'.action = "create"
    /\ reply'.status = "ok"
    /\ Len(storage') = Len(storage) + 1

\* The conditions of a filters object that have a non-empty value, in index
\* order.
UsableConditions(fo) ==
    LET by == Get(fo.filter_by)
        values == Get(fo.filter_value)
        usable == SelectSeq([i \in 1..Len(by) |-> i],
                            LAMBDA i : i <= Len(values) /\ values[i] # "")
    IN [k \in 1..Len(usable) |->
           Condition(by[usable[k]], Get(fo.filter_comparator)[usable[k]],
                     TypedValue(by[usable[k]], values[usable[k]]))]

----------------------------------------------------------------------------
(* vikunja_filters: list, get, and the failures outside the actions *)

GetRequests == {[id |-> Some(id)] : id \in UpdateIds} \cup {[id |-> None]}

\* get: the schema wants an id; the filter is read, never written.
FiltersGet(p) ==
    /\ pc = "Idle"
    /\ IF ~IsSome(p.id)
       THEN reply' = ReplyTo("filters", "get", FiltersCatch(FALSE), "schema", p, None)
       ELSE LET filter == storageGet(storage, Get(p.id)) IN
            IF ~IsSome(filter)
            THEN reply' = ReplyTo("filters", "get", FiltersCatch(TRUE), "not found", p, None)
            ELSE reply' = ReplyTo("filters", "get", "ok", "", p, filter)
    /\ UNCHANGED <<storage, nextId, clock>>
    /\ UNCHANGED listVars

ListRequests ==
    {[projectId |-> None, global |-> None], [projectId |-> Some(1), global |-> None],
     [projectId |-> None, global |-> Some(TRUE)]}

\* storage.getByProject
storageGetByProject(st, projectId) ==
    SelectSeq(st, LAMBDA f : f.projectId = Some(projectId))

\* list: every filter, or those of a project, or those with the global flag.
FiltersList(p) ==
    /\ pc = "Idle"
    /\ LET filters ==
              IF IsSome(p.projectId) THEN storageGetByProject(storage, Get(p.projectId))
              ELSE IF IsSome(p.global)
              THEN SelectSeq(storage, LAMBDA f : f.isGlobal = Get(p.global))
              ELSE storage
       IN reply' = ReplyTo("filters", "list", "ok", "", p,
                           [i \in 1..Len(filters) |-> filters[i].id])
    /\ UNCHANGED <<storage, nextId, clock>>
    /\ UNCHANGED listVars

FiltersActions == {"list", "get", "create", "update", "delete", "build", "validate"}

\* The session storage cannot be obtained, or the first storage call of the
\* action rejects: the error is raised inside the try and storage is as it
\* was.  build and validate make no storage call.
FiltersUnavailable(action, stage, mcp) ==
    /\ pc = "Idle"
    /\ stage = "storage" => action \notin {"build", "validate"}
    /\ reply' = ReplyTo("filters", action, FiltersCatch(mcp), stage, None, None)
    /\ UNCHANGED <<storage, nextId, clock>>
    /\ UNCHANGED listVars

\* Create requests with a filter string or with nothing to store.
SeedRequests ==
    {p \in CreateRequests :
        /\ p.name # Some(TemplateId(0))
        /\ ~IsSome(p.filters) \/ p.filters = Some(NoFilters)}

\* Renames and empty updates.
RenameRequests == {p \in UpdateRequests : ~IsSome(p.filter) /\ ~IsSome(p.description)}

\* Build requests of at most one condition.
ShortBuildRequests ==
    {p \in BuildRequests : Len(p.conditions) <= 1 /\ ~IsSome(p.groupOperator)}

\* Every action of the filters tool.
FiltersNext ==
    \/ \E p \in ListRequests : FiltersList(p)
    \/ \E p \in GetRequests : FiltersGet(p)
    \/ \E p \in SeedRequests : FiltersCreate(p)
    \/ \E p \in RenameRequests : FiltersUpdate(p)
    \/ \E id \in UpdateIds : FiltersDelete(id)
    \/ \E p \in ShortBuildRequests : FiltersBuild(p)
    \/ \E p \in ValidateRequests : FiltersValidate(p)
    \/ \E action \in FiltersActions, stage \in {"session", "storage"}, mcp \in BOOLEAN :
          FiltersUnavailable(action, stage, mcp)

FiltersSpec == StoreInit /\ [][FiltersNext]_vars

----------------------------------------------------------------------------
(* Properties of the filters tool's writes and replies *)

NameUsed(st, name) == \E i \in 1..Len(st) : st[i].name = name
IdStored(st, id) == \E i \in 1..Len(st) : st[i].id = id

\* The request has no filter string and no filters object with a usable
\* condition.
NothingToStore(p) ==
    /\ ~TruthyFilter(p.filter)
    /\ \/ ~IsSome(p.filters)
       \/ ~IsSome(Get(p.filters).filter_by)
       \/ ~IsSome(Get(p.filters).filter_value)
       \/ Len(UsableConditions(Get(p.filters))) = 0

\* The last step answered a filters create.
CreateAnswered == reply'.tool = "filters" /\ reply'.action = "create"

\* C21: a create that fails, among others because its name is the name of a
\* stored filter or because it has no filter string and no usable condition,
\* leaves the stored filters as they were and makes no storage.create call
\* (no id is handed out); a create that succeeds appends one saved filter and
\* leaves the others as they were.
C21_CreateFrame ==
    [][CreateAnswered =>
         \A p \in CreateRequests :
            FiltersCreate(p) =>
               /\ (CreateSchemaOk(p)
                     /\ (NameUsed(storage, CreateName(p)) \/ NothingToStore(p)))
                  => reply'.status = "error"
               /\ reply'.status # "ok" => storage' = storage /\ nextId' = nextId
               /\ reply'.status = "ok" =>
                     /\ Len(storage') = Len(storage) + 1
                     /\ SubSeq(storage', 1, Len(storage)) = storage
                     /\ storage'[Len(storage')].name = CreateName(p)
                     /\ nextId' = nextId + 1
      ]_vars

\* C21 witness: a create was refused for its name with one filter stored.
C21_Witness ==
    /\ reply.tool = "filters" /\ reply.action = "create"
    /\ reply.status = "error" /\ reply.message = "already exists"
    /\ Len(storage) = 1 /\ nextId = 1

\* An id the storage has handed out.
IdIssued(id) == \E n \in 1..nextId : IdOf(n) = id

\* The last step answered a filters get or delete.
GetOrDeleteAnswered == reply'.tool = "filters" /\ reply'.action \in {"get", "delete"}

\* The frame of get and delete on the id.
GetDeleteFrame(id) ==
    /\ FiltersGet([id |-> Some(id)]) =>
          /\ storage' = storage
          /\ ~IdStored(storage, id) =>
                reply'.status = "error" /\ reply'.message = "not found"
    /\ FiltersDelete(id) =>
          IF ~IdStored(storage, id)
          THEN storage' = storage /\ reply'.status = "error"
               /\ reply'.message = "not found"
          ELSE /\ reply'.status = "ok"
               /\ storage' = SelectSeq(storage, LAMBDA f : f.id # id)
               /\ Len(storage') = Len(storage) - 1
               /\ ~IdStored(storage', id)

\* An id handed out and no longer stored is not stored again.
DeletedStaysDeleted ==
    \A id \in UpdateIds : (IdIssued(id) /\ ~IdStored(storage, id)) => ~IdStored(storage', id)

\* C22: get and delete on an id that is not stored report not found and
\* leave storage as it was; delete on a stored id removes the saved filter
\* with that id and no other; a removed id is never stored again, so get and
\* delete on it report not found from then on.
C22_GetDelete ==
    [][/\ DeletedStaysDeleted
       /\ GetOrDeleteAnswered => \A id \in UpdateIds : GetDeleteFrame(id)]_vars

\* C22 witness: get on a deleted id reported not found while another filter
\* is still stored.
C22_Witness ==
    /\ reply.tool = "filters" /\ reply.action = "get"
    /\ reply.message = "not found"
    /\ reply.request = [id |-> Some(IdOf(1))]
    /\ IdIssued(IdOf(1))
    /\ Len(storage) = 1 /\ storage[1].id = IdOf(2)

\* What the failures inside the actions are reported as.
FailureMessages ==
    {"schema", "not found", "already exists", "No filter conditions provided",
     "session", "storage"}

\* C24: every invocation of the filters tool returns a response, a result or
\* an error response; a schema failure, not found, a duplicate name, a
\* filter string that does not parse, a storage failure and a failure to
\* obtain the session storage are all answered with an error response, and
\* none is thrown to the caller.
C24_AlwaysAnswers ==
    [][/\ reply'.tool = "filters"
       /\ reply'.status \in {"ok", "error"}
       /\ (\/ reply'.message \in FailureMessages
           \/ reply'.action = "validate" /\ reply'.data = None)
          => reply'.status = "error"]_vars

\* C24 witness: the session storage could not be obtained with an MCPError
\* and the create was answered with an error response.
C24_Witness ==
    /\ reply.tool = "filters" /\ reply.action = "create"
    /\ reply.status = "error" /\ reply.message = "session"
    /\ Len(storage) = 1

----------------------------------------------------------------------------
(* The four tools that need a session, by subcommand *)

TasksSubcommands ==
    {"create", "get", "update", "delete", "list", "assign", "unassign",
     "list-assignees", "attach", "comment", "bulk-create", "bulk-update",
     "bulk-delete", "relate", "unrelate", "relations", "add-reminder",
     "remove-reminder", "list-reminders", "apply-label", "remove-label",
     "list-labels"}
TaskBulkOperations == {"bulk-create", "bulk-update", "bulk-delete"}
TemplatesSubcommands == {"create", "list", "get", "update", "delete", "instantiate"}
UsersSubcommands == {"current", "search", "settings", "update-settings"}
AuthTypes == {"jwt", "api-token"}

\* What the invocation met: the session, the registration and the server.
Invocation(authenticated, authType, hasFactory, clientOk) ==
    [authenticated |-> authenticated, authType |-> authType,
     hasFactory |-> hasFactory, clientOk |-> clientOk]

\* The reply of a handler whose subcommand, once dispatched, succeeds or
\* throws an MCPError: the calls made are the reply's data.
Dispatched(tool, sub, request, before, thrown, subcommandOk) ==
    /\ pc = "Idle"
    /\ reply' =
          IF IsSome(before.error)
          THEN ReplyTo(tool, sub, "thrown", thrown, request, before.calls)
          ELSE ReplyTo(tool, sub, IF subcommandOk THEN "ok" ELSE "thrown",
                       IF subcommandOk THEN "" ELSE "API_ERROR", request,
                       before.calls \o <<sub>>)
    /\ UNCHANGED <<storage, nextId, clock>>
    /\ UNCHANGED listVars

TasksTool(sub, authenticated, hasFactory, clientOk, subcommandOk) ==
    LET before == TasksPrologue(authenticated, hasFactory, clientOk) IN
    Dispatched("tasks", sub, Invocation(authenticated, "api-token", hasFactory, clientOk),
               before,
               IF IsSome(before.error) THEN TasksToolCatch(Get(before.error)).code ELSE "",
               subcommandOk)

TaskBulkTool(op, authenticated, hasFactory, clientOk, subcommandOk) ==
    LET before == TaskBulkPrologue(authenticated, hasFactory, clientOk) IN
    Dispatched("task_bulk", op, Invocation(authenticated, "api-token", hasFactory, clientOk),
               before,
               IF IsSome(before.error) THEN TaskBulkCatch(Get(before.error)).code ELSE "",
               subcommandOk)

TemplatesTool(sub, authenticated, clientOk, subcommandOk) ==
    LET before == TemplatesPrologue(authenticated, clientOk) IN
    Dispatched("templates", sub, Invocation(authenticated, "api-token", FALSE, clientOk),
               before,
               IF IsSome(before.error) THEN TemplatesCatch(Get(before.error)).code ELSE "",
               subcommandOk)

\* The users handler's checks are outside its try: what they throw reaches
\* the caller as thrown.
UsersTool(sub, authenticated, authType, clientOk, subcommandOk) ==
    LET before == UsersPrologue(authenticated, authType, clientOk) IN
    Dispatched("users", sub, Invocation(authenticated, authType, FALSE, clientOk),
               before,
               IF IsSome(before.error) THEN Get(before.error).code ELSE "",
               subcommandOk)

SessionNext ==
    \/ \E sub \in TasksSubcommands, authenticated, hasFactory, clientOk, ok \in BOOLEAN :
          TasksTool(sub, authenticated, hasFactory, clientOk, ok)
    \/ \E op \in TaskBulkOperations, authenticated, hasFactory, clientOk, ok \in BOOLEAN :
          TaskBulkTool(op, authenticated, hasFactory, clientOk, ok)
    \/ \E sub \in TemplatesSubcommands, authenticated, clientOk, ok \in BOOLEAN :
          TemplatesTool(sub, authenticated, clientOk, ok)
    \/ \E sub \in UsersSubcommands, authenticated, clientOk, ok \in BOOLEAN,
          authType \in AuthTypes :
          UsersTool(sub, authenticated, authType, clientOk, ok)

SessionSpec == StoreInit /\ [][SessionNext]_vars

SessionTools == {"tasks", "task_bulk", "templates", "users"}

\* C23: an invocation of vikunja_tasks, vikunja_task_bulk, vikunja_templates
\* or vikunja_users, whatever the subcommand, made without an authenticated
\* session fails with the authentication-required error, and no
\* client-factory, client, remote or storage call has been made.
C23_AuthFirst ==
    (reply.tool \in SessionTools /\ ~reply.request.authenticated) =>
        /\ reply.status = "thrown"
        /\ reply.message = "AUTH_REQUIRED"
        /\ reply.data = <<>>

\* C23 witness: vikunja_users was invoked without a session, without JWT
\* authentication and with the server unreachable, and each of the other
\* three tools can be invoked without a session too.
C23_Witness ==
    /\ reply.tool = "users"
    /\ reply.action = "update-settings"
    /\ reply.request = Invocation(FALSE, "api-token", FALSE, FALSE)
    /\ reply.message = "AUTH_REQUIRED"

----------------------------------------------------------------------------
(* The filters tool creating and updating saved filters *)

\* Create requests that store the priority filter under a name.
NamedRequests == {p \in SeedRequests : p.filter = Some(FilterPriority)}

\* Update requests for the first filter created and for an id never stored.
FrameRequests == {p \in UpdateRequests : p.id \in {IdOf(1), MissingId}}

UpdateNext ==
    \/ \E p \in NamedRequests : FiltersCreate(p)
    \/ \E p \in FrameRequests : FiltersUpdate(p)

UpdateSpec == StoreInit /\ [][UpdateNext]_vars

\* The fields an update request supplies, and the value it supplies.
Supplied(p) == {k \in UpdateFields : IsSome(p[k])}
SuppliedValue(p, k) == IF k \in {"description", "projectId"} THEN p[k] ELSE Get(p[k])

\* The last step answered a filters update.
UpdateAnswered == reply'.tool = "filters" /\ reply'.action = "update"

----------------------------------------------------------------------------
(* vikunja_templates: instantiate *)

MaxTasks == 2

SourceTaskLists == {[i \in 1..n |-> SourceTask(i)] : n \in 0..MaxTasks}

\* What the server does with a task: it creates it, it refuses it, or it
\* creates it and refuses its labels.
TaskOutcomes == {"created", "failed", "labelsFailed"}

RemoteCall(op, title) == [op |-> op, title |-> title]

TaskCreatedWithLabels(outcome) == outcome = "created"

\* createdTasks.push follows createTask and precedes the label update.
TaskCreated(outcome) == outcome # "failed"

\* The calls made for one task of the template: createTask, then
\* updateTaskLabels when the task was created and has labels.
TaskCalls(task, outcome) ==
    <<RemoteCall("createTask", task.title)>>
    \o (IF outcome # "failed" /\ IsSome(task.labels) /\ Len(Get(task.labels)) > 0
        THEN <<RemoteCall("updateTaskLabels", task.title)>> ELSE <<>>)

\* The loop over template.tasks: a failure of one task is logged and the
\* loop goes on.
RECURSIVE InstantiateTasks(_, _, _)
InstantiateTasks(tasks, outcomes, i) ==
    IF i > Len(tasks) THEN [calls |-> <<>>, created |-> 0]
    ELSE LET rest == InstantiateTasks(tasks, outcomes, i + 1) IN
         [calls |-> TaskCalls(tasks[i], outcomes[i]) \o rest.calls,
          created |-> (IF TaskCreated(outcomes[i]) THEN 1 ELSE 0) + rest.created]

InstantiateData(calls, created, failed) ==
    [calls |-> calls, createdTasks |-> created, failedTasks |-> failed]

TemplatesInstantiate(a, authenticated, clientOk, projectOk, outcomes) ==
    /\ pc = "Idle"
    /\ LET before == TemplatesPrologue(authenticated, clientOk)
           request == [id |-> a.id, projectName |-> a.projectName,
                       authenticated |-> authenticated, clientOk |-> clientOk,
                       projectOk |-> projectOk, outcomes |-> outcomes]
           thrown(code, calls) ==
               ReplyTo("templates", "instantiate", "thrown", code, request,
                       InstantiateData(calls, 0, 0))
           savedFilter == storageFindByName(storage, Get(a.id))
           parsed == JsonParse(Get(savedFilter).filter)
           template == Get(parsed.template)
           done == InstantiateTasks(template.tasks, outcomes, 1)
       IN reply' =
             IF IsSome(before.error)
             THEN thrown(TemplatesCatch(Get(before.error)).code, <<>>)
             ELSE IF ~TruthyString(a.id) \/ ~TruthyString(a.projectName)
             THEN thrown("VALIDATION_ERROR", <<>>)
             ELSE IF ~IsSome(savedFilter) THEN thrown("NOT_FOUND", <<>>)
             ELSE IF ~parsed.ok THEN thrown("API_ERROR", <<>>)
             ELSE IF ~projectOk
             THEN thrown("API_ERROR", <<RemoteCall("createProject", Get(a.projectName))>>)
             ELSE ReplyTo("templates", "instantiate", "ok", "", request,
                          InstantiateData(
                              <<RemoteCall("createProject", Get(a.projectName))>>
                                 \o done.calls,
                              done.created,
                              Len(template.tasks) - done.created))
    /\ UNCHANGED <<storage, nextId, clock>>
    /\ UNCHANGED listVars

MissingTemplate == "template_9"

InstantiateRequests ==
    {[id |-> Some(TemplateId(0)), projectName |-> Some("New")],
     [id |-> Some(MissingTemplate), projectName |-> Some("New")],
     [id |-> Some(TemplateId(0)), projectName |-> None],
     [id |-> None, projectName |-> Some("New")]}

\* The storages an instantiate request can meet: empty, one template of the
\* source project with some of its tasks, or a saved filter that has a
\* template's name and is no template.
TemplateStorages ==
    {<<>>,
     storageCreate(<<>>, 0, CreateData([CreateDefaults EXCEPT
                                            !.name = Some(TemplateId(0)),
                                            !.filter = Some(FilterPriority)]))}
    \cup {storageCreate(<<>>, 0,
                        TemplateFilter(TemplateData(
                            [projectId |-> Some(1), name |-> Some("tpl"),
                             description |-> None, tags |-> None],
                            0, SourceProject, tasks))) : tasks \in SourceTaskLists}

InstantiateInit ==
    /\ storage \in TemplateStorages
    /\ nextId = Len(storage)
    /\ clock = 0
    /\ reply = NoReply
    /\ pc = "Idle"
    /\ args = NoArgs
    /\ ast = None
    /\ meta = NoMeta
    /\ run = NoRun
    /\ response = None
    /\ error = None
    /\ creating = NoneCreating

InstantiateNext ==
    \E a \in InstantiateRequests, authenticated \in BOOLEAN, clientOk \in BOOLEAN,
       projectOk \in BOOLEAN, outcomes \in [1..MaxTasks -> TaskOutcomes] :
       TemplatesInstantiate(a, authenticated, clientOk, projectOk, outcomes)

InstantiateSpec == InstantiateInit /\ [][InstantiateNext]_vars

InstantiateReplied == reply.tool = "templates" /\ reply.action = "instantiate"

\* The template a templates subcommand finds under the id, if any.
TemplateOf(st, id) ==
    LET f == storageFindByName(st, id) IN
    IF IsSome(f) /\ JsonParse(Get(f).filter).ok
    THEN JsonParse(Get(f).filter).template ELSE None

\* The calls of a reply that have the operation, in order.
CallsOf(op) == SelectSeq(reply.data.calls, LAMBDA c : c.op = op)

\* C26: instantiate creates the project once and before any task; after the
\* project is created every task of the template is attempted, in order,
\* whatever became of the tasks before it; createdTasks + failedTasks is the
\* number of tasks of the template, and a task whose labels were refused
\* counts as created; when the template is not found or the project is not
\* created, no task is created.
C26_Instantiate ==
    InstantiateReplied =>
       LET r == reply.request
           d == reply.data
           found == TruthyString(r.id) /\ IsSome(TemplateOf(storage, Get(r.id)))
       IN /\ Len(CallsOf("createProject")) <= 1
          /\ Len(d.calls) > 0 => d.calls[1].op = "createProject"
          /\ (~found \/ ~r.projectOk) =>
                reply.status = "thrown" /\ CallsOf("createTask") = <<>>
          /\ (r.authenticated /\ r.clientOk /\ TruthyString(r.projectName)
                /\ found /\ r.projectOk) =>
                LET t == Get(TemplateOf(storage, Get(r.id))) IN
                /\ reply.status = "ok"
                /\ Len(CallsOf("createProject")) = 1
                /\ [i \in 1..Len(CallsOf("createTask")) |-> CallsOf("createTask")[i].title]
                      = [i \in 1..Len(t.tasks) |-> t.tasks[i].title]
                /\ d.createdTasks + d.failedTasks = Len(t.tasks)
                /\ d.createdTasks =
                      Cardinality({i \in 1..Len(t.tasks) : r.outcomes[i] # "failed"})

\* C26 witness: of a template of two tasks the first was refused and the
\* second was created with its labels refused.
C26_Witness ==
    /\ InstantiateReplied
    /\ reply.status = "ok"
    /\ reply.request.outcomes[1] = "failed"
    /\ reply.request.outcomes[2] = "labelsFailed"
    /\ reply.data.calls = <<RemoteCall("createProject", "New"),
                            RemoteCall("createTask", "t1"),
                            RemoteCall("createTask", "t2"),
                            RemoteCall("updateTaskLabels", "t2")>>
    /\ reply.data.createdTasks = 1 /\ reply.data.failedTasks = 1

----------------------------------------------------------------------------
(* vikunja_templates: get and update *)

\* get: the template is looked up by name, the name being the template's
\* id, and parsed; an error that is no MCPError is rethrown as API_ERROR.
TemplatesGet(a, authenticated, clientOk) ==
    /\ pc = "Idle"
    /\ LET before == TemplatesPrologue(authenticated, clientOk)
           thrown(code) == ReplyTo("templates", "get", "thrown", code, a, None)
           savedFilter == storageFindByName(storage, Get(a.id))
           parsed == JsonParse(Get(savedFilter).filter)
       IN reply' =
             IF IsSome(before.error) THEN thrown(TemplatesCatch(Get(before.error)).code)
             ELSE IF ~TruthyString(a.id) THEN thrown("VALIDATION_ERROR")
             ELSE IF ~IsSome(savedFilter) THEN thrown("NOT_FOUND")
             ELSE IF ~parsed.ok THEN thrown("API_ERROR")
             ELSE ReplyTo("templates", "get", "ok", "", a, parsed.template)
    /\ UNCHANGED <<storage, nextId, clock>>
    /\ UNCHANGED listVars

ApplyTemplateUpdateAll(template, a) ==
    [template EXCEPT !.name = IF IsSome(a.name) THEN Get(a.name) ELSE @,
                     !.description = a.description,
                     !.tags = IF IsSome(a.tags) THEN Get(a.tags) ELSE <<>>]

\* update: the arguments that are not undefined are written into the
\* template.
ApplyTemplateUpdate(template, a) ==
    [template EXCEPT !.name = IF IsSome(a.name) THEN Get(a.name) ELSE @,
                     !.description = IF IsSome(a.description) THEN a.description ELSE @,
                     !.tags = IF IsSome(a.tags) THEN Get(a.tags) ELSE @]

\* update: the template is looked up and parsed as in get, changed, and
\* written back as the filter string of the saved filter found under the
\* same name.
TemplatesUpdate(a, authenticated, clientOk) ==
    LET before == TemplatesPrologue(authenticated, clientOk)
        thrown(code) == ReplyTo("templates", "update", "thrown", code, a, None)
        savedFilter == storageFindByName(storage, Get(a.id))
        parsed == JsonParse(Get(savedFilter).filter)
        template == ApplyTemplateUpdate(Get(parsed.template), a)
    IN /\ pc = "Idle"
       /\ IF IsSome(before.error)
          THEN /\ reply' = thrown(TemplatesCatch(Get(before.error)).code)
               /\ UNCHANGED storage
          ELSE IF ~TruthyString(a.id)
          THEN reply' = thrown("VALIDATION_ERROR") /\ UNCHANGED storage
          ELSE IF ~IsSome(savedFilter)
          THEN reply' = thrown("NOT_FOUND") /\ UNCHANGED storage
          ELSE IF ~parsed.ok
          THEN reply' = thrown("API_ERROR") /\ UNCHANGED storage
          ELSE /\ storage' = storageUpdate(storage, Get(savedFilter).id,
                                 [name |-> None, description |-> None,
                                  filter |-> Some(JsonStringify(template)),
                                  projectId |-> None, isGlobal |-> None])
               /\ reply' = ReplyTo("templates", "update", "ok", "", a, Some(template))
       /\ UNCHANGED <<nextId, clock>>
       /\ UNCHANGED listVars

TemplateUpdateDefaults(id) == [id |-> id, name |-> None, description |-> None, tags |-> None]

TemplateUpdateRequests ==
    {[TemplateUpdateDefaults(Some(TemplateId(0))) EXCEPT !.name = Some("n2")],
     [TemplateUpdateDefaults(Some(TemplateId(0))) EXCEPT !.description = Some(""),
                                                         !.tags = Some(<<>>)],
     TemplateUpdateDefaults(Some(TemplateId(0))),
     [TemplateUpdateDefaults(Some(MissingTemplate)) EXCEPT !.name = Some("n2")],
     [TemplateUpdateDefaults(None) EXCEPT !.name = Some("n2")]}

TemplateGetRequests ==
    {TemplateUpdateDefaults(id) :
        id \in {Some(TemplateId(0)), Some(TemplateId(1)), Some(MissingTemplate), None}}

\* Create requests of the filters tool that use a template's id as the name.
PlainRequests == {p \in CreateRequests : p.name = Some(TemplateId(0))}

TemplateNext ==
    \/ \E a \in TemplateRequests, tasks \in SourceTasks,
          authenticated \in BOOLEAN, clientOk \in BOOLEAN, remoteOk \in BOOLEAN :
          TemplatesCreate(a, authenticated, clientOk, SourceProject, tasks, remoteOk)
    \/ \E a \in TemplateUpdateRequests, authenticated \in BOOLEAN, clientOk \in BOOLEAN :
          TemplatesUpdate(a, authenticated, clientOk)
    \/ \E a \in TemplateGetRequests, authenticated \in BOOLEAN, clientOk \in BOOLEAN :
          TemplatesGet(a, authenticated, clientOk)
    \/ \E p \in PlainRequests : FiltersCreate(p)
    \/ Tick

TemplateSpec == StoreInit /\ [][TemplateNext]_vars

\* The position of the saved filter that findByName gives for the name.
FirstNamed(st, name) ==
    CHOOSE i \in 1..Len(st) : st[i].name = name /\ \A k \in 1..(i - 1) : st[k].name # name

\* The last step was a templates update or get that succeeded.
TemplateUpdated ==
    reply'.tool = "templates" /\ reply'.action = "update" /\ reply'.status = "ok"
TemplateGot ==
    reply'.tool = "templates" /\ reply'.action = "get" /\ reply'.status = "ok"

\* What a successful update leaves and changes.
TemplateUpdateFrame ==
    LET a == reply'.request
        i == FirstNamed(storage, Get(a.id))
        old == Get(JsonParse(storage[i].filter).template)
        new == JsonParse(storage'[i].filter)
        now == Get(new.template)
    IN /\ Len(storage') = Len(storage)
       /\ \A j \in 1..Len(storage) : j # i => storage'[j] = storage[j]
       /\ storage'[i] = [storage[i] EXCEPT !.filter = storage'[i].filter]
       /\ new.ok
       /\ now.id = old.id /\ now.created = old.created
       /\ now.projectData = old.projectData /\ now.tasks = old.tasks
       /\ now.name = IF IsSome(a.name) THEN Get(a.name) ELSE old.name
       /\ now.description = IF IsSome(a.description) THEN a.description
                            ELSE old.description
       /\ now.tags = IF IsSome(a.tags) THEN Get(a.tags) ELSE old.tags

\* C27: a templates update that succeeds changes the name, description and
\* tags of the stored template to the supplied ones and nothing else: the
\* template's id, created, projectData and tasks, the saved filter's name
\* and every other saved filter are as they were; a templates get returns
\* the template stored under the id, so after updates it returns the latest
\* supplied name, description and tags.
C27_TemplateUpdate ==
    [][/\ TemplateUpdated => TemplateUpdateFrame
       /\ TemplateGot =>
             /\ storage' = storage
             /\ reply'.data = TemplateOf(storage, Get(reply'.request.id))
             /\ Get(reply'.data).id = Get(reply'.request.id)
      ]_vars

\* C27 witness: after a rename and an update of description and tags, get
\* returns the template with all three, while a later template is stored
\* beside it.
C27_Witness ==
    /\ reply.tool = "templates" /\ reply.action = "get" /\ reply.status = "ok"
    /\ Get(reply.data).name = "n2"
    /\ Get(reply.data).description = Some("")
    /\ Get(reply.data).tags = <<>>
    /\ Get(reply.data).tasks = <<[title |-> "t1", labels |-> None]>>
    /\ Len(storage) = 2
    /\ storage[2].name = TemplateId(1)

\* The templates among the saved filters.
IsTemplate(f) == JsonParse(f.filter).ok

\* C30, as claimed: no two stored templates have the same id or are stored
\* under the same saved-filter name, so no create shadows a template
\* already stored.
C30_TemplateIdsDistinct ==
    \A i, j \in 1..Len(storage) :
        (i # j /\ IsTemplate(storage[i]) /\ IsTemplate(storage[j])) =>
            /\ Get(JsonParse(storage[i].filter).template).id
                  # Get(JsonParse(storage[j].filter).template).id
            /\ storage[i].name # storage[j].name

----------------------------------------------------------------------------
(* Session-scoped storage: getSessionStorage *)

\* apiToken.substring(0, 8)
TokenPrefixLength == 8

Anonymous == <<"a", "n", "o", "n", "y", "m", "o", "u", "s">>

\* The storage session id of a session, as the characters of the string:
\* the API URL, a colon and the first characters of the token, or
\* 'anonymous' when the session has no token.
getSessionId(session) ==
    IF IsSome(session.apiToken) /\ Len(Get(session.apiToken)) > 0
    THEN session.apiUrl \o <<":">>
         \o SubSeq(Get(session.apiToken), 1,
                   Min(TokenPrefixLength, Len(Get(session.apiToken))))
    ELSE Anonymous

UrlV == <<"v">>
UrlW == <<"w">>
TokenA == <<"t", "k", "_", "1", "2", "3", "4", "5", "A">>
TokenB == <<"t", "k", "_", "1", "2", "3", "4", "5", "B">>
TokenC == <<"t", "k", "_", "9">>

\* The session that owns the saved filters of the storage modelled here, and
\* the sessions of the other requests.
OwnerSession == [apiUrl |-> UrlV, apiToken |-> Some(TokenA)]
Sessions ==
    {[apiUrl |-> u, apiToken |-> t] :
        u \in {UrlV, UrlW}, t \in {Some(TokenA), Some(TokenB), Some(TokenC), None}}

\* storageManager.getStorage: one storage per session id.  The storage of
\* the owner's session id is the modelled one; no other session has stored
\* anything.
HasOwnerStorage(session) == getSessionId(session) = getSessionId(OwnerSession)

\* list, invoked under the session.
FiltersListAs(session) ==
    /\ pc = "Idle"
    /\ LET filters == IF HasOwnerStorage(session) THEN storage ELSE <<>> IN
       reply' = ReplyTo("filters", "list", "ok", "", [session |-> session, id |-> None],
                        [i \in 1..Len(filters) |-> filters[i].id])
    /\ UNCHANGED <<storage, nextId, clock>>
    /\ UNCHANGED listVars

\* delete, invoked under the session.
FiltersDeleteAs(session, id) ==
    /\ pc = "Idle"
    /\ IF HasOwnerStorage(session) /\ DeleteFound(storage, id)
       THEN /\ storage' = storageDelete(storage, id)
            /\ reply' = ReplyTo("filters", "delete", "ok", "",
                                [session |-> session, id |-> Some(id)], None)
       ELSE /\ reply' = ReplyTo("filters", "delete", FiltersCatch(TRUE), "not found",
                                [session |-> session, id |-> Some(id)], None)
            /\ UNCHANGED storage
    /\ UNCHANGED <<nextId, clock>>
    /\ UNCHANGED listVars

\* The owner creates saved filters; every session lists and deletes.
ScopeNext ==
    \/ \E p \in NamedRequests : FiltersCreate(p)
    \/ \E session \in Sessions : FiltersListAs(session)
    \/ \E session \in Sessions, id \in UpdateIds : FiltersDeleteAs(session, id)

ScopeSpec == StoreInit /\ [][ScopeNext]_vars

\* The two sessions differ in API URL or in API token.
OtherSession(s, t) == s.apiUrl # t.apiUrl \/ s.apiToken # t.apiToken

\* C28, as claimed: a request under a session that differs from the owner's
\* in API URL or API token has another storage session id, lists none of the
\* owner's saved filters and deletes none.
C28_SessionsIsolated ==
    (/\ reply.tool = "filters"
     /\ reply.action \in {"list", "delete"}
     /\ OtherSession(reply.request.session, OwnerSession))
    => /\ getSessionId(reply.request.session) # getSessionId(OwnerSession)
       /\ IF reply.action = "list" THEN reply.data = <<>> ELSE reply.status = "error"

----------------------------------------------------------------------------
(* vikunja_filters create, step by step: what runs up to the answer of     *)
(* findByName, and what runs after it                                      *)

\* The request ends with the handler's answer.
CreateDone(r, p, status, message) ==
    /\ creating' = [creating EXCEPT ![r] = [stage |-> "done", request |-> Some(p),
                                            existing |-> @.existing, status |-> status]]
    /\ reply' = Reply("filters", "create", status, message)

\* The parameters are parsed, the filter string is built, and findByName is
\* awaited: its answer is the storage at that moment.
CreateCheck(r, p) ==
    /\ pc = "Idle"
    /\ nextId < MaxFilters
    /\ creating[r].stage = "idle"
    /\ IF ~CreateSchemaOk(p)
       THEN CreateDone(r, p, FiltersCatch(FALSE), "schema")
       ELSE IF CreateFilterString(p) = <<>>
       THEN CreateDone(r, p, FiltersCatch(TRUE), "No filter conditions provided")
       ELSE /\ creating' = [creating EXCEPT ![r] =
                               [stage |-> "checked", request |-> Some(p),
                                existing |-> CreateNameTaken(storage, CreateName(p)),
                                status |-> ""]]
            /\ UNCHANGED reply
    /\ UNCHANGED <<storage, nextId, clock>>
    /\ UNCHANGED <<pc, args, ast, meta, run, response, error>>

\* The handler resumes with the answer of findByName: it throws when a filter
\* had the name, and awaits storage.create otherwise.
CreateStore(r) ==
    /\ creating[r].stage = "checked"
    /\ LET p == Get(creating[r].request) IN
       IF creating[r].existing
       THEN /\ CreateDone(r, p, FiltersCatch(TRUE), "already exists")
            /\ UNCHANGED <<storage, nextId>>
       ELSE /\ storage' = storageCreate(storage, nextId, CreateData(p))
            /\ nextId' = nextId + 1
            /\ CreateDone(r, p, "ok", "")
    /\ UNCHANGED clock
    /\ UNCHANGED <<pc, args, ast, meta, run, response, error>>

RaceRequests == SeedRequests

RaceNext ==
    \/ \E r \in Racers, p \in RaceRequests : CreateCheck(r, p)
    \/ \E r \in Racers : CreateStore(r)

RaceSpec == StoreInit /\ [][RaceNext]_vars

\* Two create requests with the same name have both been answered.
BothAnswered(r, s) ==
    /\ r # s
    /\ creating[r].stage = "done" /\ creating[s].stage = "done"
    /\ CreateSchemaOk(Get(creating[r].request)) /\ CreateSchemaOk(Get(creating[s].request))
    /\ CreateFilterString(Get(creating[r].request)) # <<>>
    /\ CreateFilterString(Get(creating[s].request)) # <<>>
    /\ CreateName(Get(creating[r].request)) = CreateName(Get(creating[s].request))

\* C29, as claimed: of two create requests with the same name on one
\* storage, however their steps interleave, at most one stores a saved
\* filter and the other is refused; one saved filter has the name.
C29_OneCreateWins ==
    \A r, s \in Racers :
        BothAnswered(r, s) =>
            /\ ~(creating[r].status = "ok" /\ creating[s].status = "ok")
            /\ Cardinality({i \in 1..Len(storage) :
                              storage[i].name = CreateName(Get(creating[r].request))}) <= 1

=============================================================================
